---- MODULE Spec2Model ----
(***************************************************************************)
(* Run/step scheduler, Re-emit recovery sweep and auto-rebase controller   *)
(* of clawdorio (crates/server/src/lib.rs).                                *)
(*                                                                         *)
(* The store is modelled by the rows the scheduler touches: runs, their    *)
(* ordered steps, the base payload bookkeeping and the counted events.     *)
(* Every store transaction of the code is one action; code that runs       *)
(* without a transaction (queue_base_rebase_sweep) is one action per       *)
(* statement.  Step positions are 1-based here (step_index + 1).           *)
(***************************************************************************)
EXTENDS Integers, Sequences, FiniteSets, TLC

\* ---------------------------------------------------------------- bounds
\* Spec: one feature run and one sweep next to it
MaxFeatureRuns == 1
MaxRebaseRuns == 1
MaxTestFails == 3
MaxSweepFails == 1
\* SpecRebase: the auto-rebase controller alone
MaxSweeps == 2
MaxTicks == 1
\* SpecRetry: one sweep that keeps failing
MaxRetryFails == 4
\* SpecRace: concurrent claim attempts over runs in progress
MaxClaimers == 3
MaxRaceRuns == 2
\* SpecComment: Comment Re-emit requests over runs in progress
MaxCommentRuns == 2
MaxComments == 2
MaxCommentTicks == 1
\* SpecBuild: feature builds that commit or fail, and the runloop
MaxBuilds == 2
MaxBuildFails == 2
\* SpecScope: Re-emit over runs of two bases
MaxScopeRuns == 2
MaxTriggers == 1
MaxPatches == 1
MaxReconcileCalls == 1
MaxReconcileTicks == 1
\* SpecReemit: Re-emit over one run whose steps are in any status
MaxReemitRuns == 1
ReemitWindow == 3

\* ------------------------------------------------------- program constants
AUTO_REBASE_MAX_RETRIES == 3
max_retries == 2
WatchdogTicks == 30
ReconcilerTicks == 20
\* DEFAULT_AUTO_REBASE_INTERVAL_SEC, in clock units of half an interval
IntervalUnits == 2
\* auto_rebase_backoff_sec per attempt
BackoffSec == 30
\* the 15_000 ms window of api_pr_comment; SpecComment reads the clock in
\* units of 15 s
RateLimitUnits == 1
DEFAULT_AUTO_REBASE_INTERVAL_SEC == 900
\* seconds in one unit of the clock
SecPerUnit == DEFAULT_AUTO_REBASE_INTERVAL_SEC \div IntervalUnits
\* the smallest auto_rebase_interval_sec that is accepted and used
MinIntervalSec == 30

\* ------------------------------------------------------------- entities
Bases == {"b1"}
Features == {"f1"}
FeatureBase == [f \in Features |-> "b1"]
Heads == {"h1", "h2"}

\* payload.base_id of an entity (payload_base_id); base payloads carry none
\* (SpecScope adds feature f2 of a second base b2)
payload_base_id(e) ==
  IF e \in Features THEN FeatureBase[e] ELSE IF e = "f2" THEN "b2" ELSE "none"

\* mutant: a chain without its verify step
FeatureSteps_NoVerify == <<"plan", "setup", "implement", "test", "pr", "review">>

\* the fixed chain of a feature run, in step_index order
FeatureSteps == <<"plan", "setup", "implement", "verify", "test", "pr", "review">>
RebaseSteps == <<"auto-rebase">>
StepNames(wf) == IF wf = "feature-dev" THEN FeatureSteps ELSE RebaseSteps

VARIABLES
  runs,        \* rows of table runs, in created_at order
  steps,       \* steps[r]: rows of table steps of run r, in step_index order
  requeued,    \* requeued[r]: number of run.requeued.test_failed events of run r
  payload,     \* payload[b]: auto-rebase fields of the payload of base b
  now,         \* wall clock, in units of half a reconcile interval
  sched,       \* the runloop task: position, claimed step, idle_loops
  calls,       \* in-flight queue_base_rebase_sweep invocations, per caller
  hist,        \* history: test failures and sweep executions per run, and the
               \* payloads of the run.requeued.test_failed events
  budget,      \* what the environment may still do: runs to create, executor
               \* failures, clock ticks, comment requests
  race,        \* concurrent claim attempts (SpecRace): K and each claimer
  appended,    \* rows the last commit added to table event_log
  event_log,   \* rows of table event_log, kept where they are read back
               \* (SpecComment): seq, kind, ts_ms and the payload fields
  comment,     \* the api_pr_comment handler: position, request, response
  updated,     \* run ids by updated_at, most recent first (SpecComment)
  worktrees,   \* number of rows of table worktrees
  emitted,     \* the events the last commit inserted, in insertion order
  disk,        \* number of worktree directories on disk
  repo,        \* repo[b]: the git repository of base b as git reports it
  request      \* the settings PATCH or webhook request last handled

vars == <<runs, steps, requeued, payload, now, sched, calls, hist, budget, race,
          appended, event_log, comment, updated, worktrees, emitted, disk, repo, request>>

Callers == {"http", "rec"}

Min(S) == CHOOSE x \in S : \A y \in S : x <= y

Max(S) == CHOOSE x \in S : \A y \in S : x >= y

\* Engine::get_rev: MAX(seq), 0 when the table is empty
get_rev(L) == IF L = <<>> THEN 0 ELSE Max({L[i].seq : i \in DOMAIN L})

\* mutant: the new row takes the largest seq in use
append_event_Reuse(L, row) == Append(L, [row EXCEPT !.seq = get_rev(L)])

\* INSERT INTO event_log: seq INTEGER PRIMARY KEY AUTOINCREMENT
append_event(L, row) == Append(L, [row EXCEPT !.seq = get_rev(L) + 1])

EventRow(kind, ts_ms, run, base, key) ==
  [seq |-> 0, kind |-> kind, ts_ms |-> ts_ms, run |-> run, base |-> base,
   idempotency_key |-> key]

\* one inserted event: kind and the payload fields that are read
Ev(kind, run, step) ==
  [kind |-> kind, run |-> run, step |-> step, requeued |-> FALSE, scanned |-> 0,
   sha |-> "", scope |-> "", reset |-> 0]

RECURSIVE LogAll(_, _)
LogAll(L, es) ==
  IF es = <<>> THEN L
  ELSE LogAll(append_event(L, EventRow(Head(es).kind, now, Head(es).run, "none", "none")),
              Tail(es))

\* the events of a commit; while budget.log holds the rows that name a run
\* are kept
Emit(es) ==
  /\ emitted' = es
  /\ event_log' = IF budget.log
                   THEN LogAll(event_log, SelectSeq(es, LAMBDA e : e.run # 0))
                   ELSE event_log

\* the git repository of a base: the URL of origin (what precedes the
\* repository path, the path, a trailing .git) and the output of
\* git symbolic-ref refs/remotes/origin/HEAD as a path (<<>> when it fails);
\* remote_head is what git ls-remote origin reports for the default branch
\* ("" on error) where the remote is part of the state
DefaultRepo == [origin |-> [prefix |-> "git@github.com:", rest |-> "o/r", git |-> TRUE],
                origin_head |-> <<"refs", "remotes", "origin", "main">>,
                remote_head |-> ""]

RunIds == DOMAIN runs
Pos(r) == DOMAIN steps[r]
StepName(r, i) == StepNames(runs[r].wf)[i]

QueuedStep == [status |-> "queued", output |-> "null"]

\* interval_sec: the stored auto_rebase_interval_sec, 0 when the key is absent
NoSnap == [enabled |-> TRUE, last_enqueued_ms |-> 0, last_head |-> "",
           last_reconcile_ms |-> 0, interval_sec |-> 0]

\* ret: what the last call returned, Ok(true) "queued", Ok(false) "not_queued"
\* reason, sha: the arguments reason and upstream_sha ("" for None)
NoCall == [pc |-> "idle", base |-> "none", snap |-> NoSnap, now_ms |-> 0, run |-> 0,
           ret |-> "none", sha |-> "", reason |-> ""]

\* AutoRebaseSettingsPatch: enabled "none" and has_interval FALSE for None
NoPatch == [has_enabled |-> FALSE, enabled |-> FALSE,
            has_interval |-> FALSE, interval_sec |-> 0]
\* the x-github-event header and the JSON body of a webhook; ref is a path,
\* one element per component between slashes; "" and <<>> for an absent key
NoHook == [event |-> "", repo |-> "", ref |-> <<>>, after |-> "", action |-> "",
           merged |-> FALSE, base_sha |-> ""]
NoRequest == [op |-> "none", pc |-> "idle", base |-> "none", patch |-> NoPatch,
              hook |-> NoHook, snap |-> NoSnap, resp |-> "none"]

\* PrCommentInput; 0 stands for None in run_id, pr_url and pr_number
NoInput == [run_id |-> 0, pr_url |-> 0, pr_number |-> 0, idempotency_key |-> "none"]
NoComment == [pc |-> "idle", input |-> NoInput, resp |-> "none", run |-> 0,
              base |-> "none"]

Claimers == 1..MaxClaimers
NoStep == <<0, 0>>
NoRace == [K |-> 0, cl |-> [c \in Claimers |-> [pc |-> "off", sel |-> NoStep, ret |-> NoStep]]]

\* the store after migrate, before any request; the runloop starts with a claim
InitStore ==
  /\ runs = <<>>
  /\ steps = <<>>
  /\ requeued = <<>>
  /\ payload = [b \in Bases |-> NoSnap]
  /\ now = IntervalUnits
  /\ sched = [pc |-> "claim", run |-> 0, pos |-> 0, res |-> "none", idle |-> 0,
              base |-> "none", snap |-> NoSnap, head |-> "", now_ms |-> 0]
  /\ calls = [c \in Callers |-> NoCall]
  /\ hist = [testFails |-> <<>>, sweepExecs |-> <<>>, requeueEvents |-> {}]
  /\ race = NoRace
  /\ appended = 0
  /\ event_log = <<>>
  /\ comment = NoComment
  /\ updated = <<>>
  /\ worktrees = 0
  /\ emitted = <<>>
  /\ disk = 0
  /\ repo = [b \in Bases |-> DefaultRepo]
  /\ request = NoRequest

Init ==
  /\ InitStore
  /\ budget = [feature |-> MaxFeatureRuns, rebase |-> MaxRebaseRuns,
               testFails |-> MaxTestFails, sweepFails |-> MaxSweepFails,
               ticks |-> 0, comments |-> 0,
               buildFails |-> 0, patches |-> 0, log |-> FALSE,
               passes |-> FALSE]

\* ------------------------------------------------------------------ rows
\* pr: the pull request of context_json.pr_url, 0 when the context has none;
\* call_ms: the now_ms that the id of an auto-rebase run is made of
NewRun(wf, e) == [wf |-> wf, status |-> "queued", entity |-> e,
                  attempt |-> 0, backoff |-> 0, pr |-> 0, call_ms |-> 0,
                  upstream_sha |-> ""]

\* api_feature_build: one run, the fixed 7-step chain, all queued, one commit
api_feature_build(f) ==
  /\ budget.feature > 0
  /\ budget' = [budget EXCEPT !.feature = @ - 1]
  /\ runs' = Append(runs, NewRun("feature-dev", f))
  /\ steps' = Append(steps, [i \in DOMAIN FeatureSteps |-> QueuedStep])
  /\ requeued' = Append(requeued, 0)
  /\ hist' = [hist EXCEPT !.testFails = Append(@, 0), !.sweepExecs = Append(@, 0)]
  /\ worktrees' = worktrees + 1
  /\ disk' = disk + 1
  /\ appended' = 0
  /\ Emit(<<>>)
  /\ UNCHANGED <<payload, now, sched, calls, race, comment, updated, repo, request>>

\* where a build stops after git worktree add: engine.open or
\* conn.transaction, one of the inserts, or the commit
BuildFailures == {"begin", "insert_run", "insert_worktree", "insert_step", "commit"}

\* api_feature_build when its store transaction does not commit: the rows roll
\* back; git worktree remove runs on the commit error only
api_feature_build_failed(f, at) ==
  /\ budget.buildFails > 0
  /\ budget' = [budget EXCEPT !.buildFails = @ - 1]
  /\ disk' = IF at = "commit" THEN disk ELSE disk + 1
  /\ appended' = 0
  /\ Emit(<<>>)
  /\ UNCHANGED <<runs, steps, requeued, payload, now, sched, calls, hist, race, comment,
                 updated, worktrees, repo, request>>

\* ----------------------------------------------------------------- claim
\* mutant: the comparison of the first NOT EXISTS is the wrong way round
Runnable_Flipped(R, S, r, i) ==
  /\ S[r][i].status \in {"queued", "pending"}
  /\ R[r].status \in {"queued", "running"}
  /\ ~ \E j \in DOMAIN S[r] : j > i /\ S[r][j].status \notin {"done", "skipped"}
  /\ ~ \E j \in DOMAIN S[r] : S[r][j].status = "running"

\* the WHERE clause of the SELECT in claim_next_step
Runnable(R, S, r, i) ==
  /\ S[r][i].status \in {"queued", "pending"}
  /\ R[r].status \in {"queued", "running"}
  /\ ~ \E j \in DOMAIN S[r] : j < i /\ S[r][j].status \notin {"done", "skipped"}
  /\ ~ \E j \in DOMAIN S[r] : S[r][j].status = "running"

RunnableSet(R, S) ==
  {<<r, i>> \in (DOMAIN R) \X (1..7) : i \in DOMAIN S[r] /\ Runnable(R, S, r, i)}

\* mutant: ORDER BY s.step_index ASC, r.created_at ASC
FirstRunnable_ByStep(R, S) ==
  CHOOSE p \in RunnableSet(R, S) :
    \A q \in RunnableSet(R, S) : p[2] < q[2] \/ (p[2] = q[2] /\ p[1] <= q[1])

\* ORDER BY r.created_at ASC, s.step_index ASC LIMIT 1
FirstRunnable(R, S) ==
  CHOOSE p \in RunnableSet(R, S) :
    \A q \in RunnableSet(R, S) : p[1] < q[1] \/ (p[1] = q[1] /\ p[2] <= q[2])

\* mutant: the UPDATE is not conditional on the status
ClaimUpdated_Always(S, r, i) == i \in DOMAIN S[r]

\* the conditional UPDATE of the chosen step: rows affected
ClaimUpdated(S, r, i) == S[r][i].status \in {"queued", "pending"}

\* mutant: the UPDATE is keyed by run_id, not by the id of the step
PromoteSteps_ByRun(S, r, i) ==
  [S EXCEPT ![r] = [j \in DOMAIN S[r] |->
                      IF S[r][j].status \in {"queued", "pending"}
                      THEN [S[r][j] EXCEPT !.status = "running"] ELSE S[r][j]]]

PromoteSteps(S, r, i) == [S EXCEPT ![r][i].status = "running"]
\* mutant: the UPDATE of the run has no WHERE id
PromoteRuns_All(R, r) ==
  [q \in DOMAIN R |-> IF R[q].status = "queued" THEN [R[q] EXCEPT !.status = "running"]
                      ELSE R[q]]

\* UPDATE runs SET status='running' WHERE id=?2 AND status='queued'
PromoteRuns(R, r) ==
  [R EXCEPT ![r].status = IF R[r].status = "queued" THEN "running" ELSE @]

\* --------------------------------------------------------------- finalize
finalize_done_steps(S, r, i) ==
  [S EXCEPT ![r][i] = [status |-> "done", output |-> "out"]]

\* mutant: remaining = 1
finalize_done_runs_OneLeft(R, S, r, i) ==
  LET S2 == finalize_done_steps(S, r, i)
      remaining == Cardinality({j \in DOMAIN S2[r] : S2[r][j].status # "done"})
  IN IF remaining = 1 THEN [R EXCEPT ![r].status = "done"] ELSE R

\* UPDATE runs SET status='done' when no step remains
finalize_done_runs(R, S, r, i) ==
  LET S2 == finalize_done_steps(S, r, i)
      remaining == Cardinality({j \in DOMAIN S2[r] : S2[r][j].status # "done"})
  IN IF remaining = 0 THEN [R EXCEPT ![r].status = "done"] ELSE R

\* mutant: attempts <= max_retries
TestRollback_OffByOne(R, Q, r, i) ==
  /\ StepNames(R[r].wf)[i] = "test"
  /\ Q[r] <= max_retries

\* the rollback branch is taken: test step and fewer than max_retries events
TestRollback(R, Q, r, i) ==
  /\ StepNames(R[r].wf)[i] = "test"
  /\ Q[r] < max_retries

\* mutant: step_index > (index of the failed step)
RollbackSteps_After(ss, names, i) ==
  [j \in DOMAIN ss |->
     IF j > i THEN QueuedStep
     ELSE IF names[j] = "implement" THEN [ss[j] EXCEPT !.status = "queued"]
     ELSE ss[j]]

\* UPDATE steps ... WHERE step_index >= (index of the failed step), then
\* UPDATE steps ... WHERE step_id = 'implement'
RollbackSteps(ss, names, i) ==
  [j \in DOMAIN ss |->
     IF j >= i THEN QueuedStep
     ELSE IF names[j] = "implement" THEN [ss[j] EXCEPT !.status = "queued"]
     ELSE ss[j]]

finalize_failed_steps(R, S, Q, r, i) ==
  LET S1 == [S EXCEPT ![r][i] = [status |-> "failed", output |-> "err"]]
  IN IF TestRollback(R, Q, r, i)
     THEN [S1 EXCEPT ![r] = RollbackSteps(S1[r], StepNames(R[r].wf), i)]
     ELSE S1

\* mutant: the run is marked failed also when the test step was requeued
finalize_failed_runs_Always(R, Q, r, i) == [R EXCEPT ![r].status = "failed"]

finalize_failed_runs(R, Q, r, i) ==
  IF TestRollback(R, Q, r, i)
  THEN [R EXCEPT ![r].status = "running"]
  ELSE [R EXCEPT ![r].status = "failed"]

finalize_failed_events(R, Q, r, i) ==
  IF TestRollback(R, Q, r, i) THEN [Q EXCEPT ![r] = @ + 1] ELSE Q

\* payload of the run.requeued.test_failed event: attempt, max_attempts
requeue_event(Q, r) == <<r, Q[r] + 1, max_retries>>

\* 'run.requeued.test_failed' when requeued, and 'step.failed'
finalize_failed_appended(R, Q, r, i) == IF TestRollback(R, Q, r, i) THEN 2 ELSE 1

\* mutant: step.failed always says requeued
step_failed_events_Requeued(R, Q, r, i) ==
  IF TestRollback(R, Q, r, i)
  THEN <<Ev("run.requeued.test_failed", r, 0),
         [Ev("step.failed", r, i) EXCEPT !.requeued = TRUE]>>
  ELSE <<[Ev("step.failed", r, i) EXCEPT !.requeued = TRUE]>>

\* the events of finalize_step_failed, in insertion order; step.failed
\* carries requeued
step_failed_events(R, Q, r, i) ==
  IF TestRollback(R, Q, r, i)
  THEN <<Ev("run.requeued.test_failed", r, 0),
         [Ev("step.failed", r, i) EXCEPT !.requeued = TRUE]>>
  ELSE <<Ev("step.failed", r, i)>>

\* ---------------------------------------------------------------- re-emit
\* mutant: the base filter is skipped
ReemitScanned_Unscoped(R, scope) ==
  {r \in DOMAIN R : R[r].status \in {"queued", "running", "failed"}}

\* runs the sweep scans: status filter of the SELECT, then the base filter
ReemitScanned(R, scope) ==
  {r \in DOMAIN R :
     /\ R[r].status \in {"queued", "running", "failed"}
     /\ (scope # "global" => payload_base_id(R[r].entity) = scope)}

\* mutant: pending and waiting steps are promoted also beside a running step
ReemitPromote_Both(ss) ==
  [i \in DOMAIN ss |->
     IF ss[i].status \in {"pending", "waiting", "running"}
     THEN [ss[i] EXCEPT !.status = "queued"] ELSE ss[i]]

\* steps 1-2 of the sweep on the steps of one run: running_count = 0
\* promotes pending and waiting, else the running steps are reset
ReemitPromote(ss) ==
  LET running_count == Cardinality({i \in DOMAIN ss : ss[i].status = "running"})
  IN [i \in DOMAIN ss |->
        IF running_count = 0
        THEN IF ss[i].status \in {"pending", "waiting"}
             THEN [ss[i] EXCEPT !.status = "queued"] ELSE ss[i]
        ELSE IF ss[i].status = "running"
             THEN [ss[i] EXCEPT !.status = "queued"] ELSE ss[i]]

\* mutant: only the failed steps are requeued
ReemitFailedTail_Only(s1) ==
  [i \in DOMAIN s1 |-> IF s1[i].status = "failed" THEN QueuedStep ELSE s1[i]]

\* step 3: has_failed > 0 requeues step_index >= MIN(failed step_index),
\* output_text = NULL
ReemitFailedTail(s1) ==
  LET failed == {i \in DOMAIN s1 : s1[i].status = "failed"}
  IN IF failed = {} THEN s1
     ELSE [i \in DOMAIN s1 |-> IF i >= Min(failed) THEN QueuedStep ELSE s1[i]]

\* steps 1-3 of the sweep on the steps of one run
ReemitSteps(ss) == ReemitFailedTail(ReemitPromote(ss))

reemit_steps(R, S, scope) ==
  [r \in DOMAIN S |-> IF r \in ReemitScanned(R, scope) THEN ReemitSteps(S[r]) ELSE S[r]]

\* mutant: UPDATE runs SET status='queued' with no WHERE
reemit_runs_All(R, scope) ==
  [r \in DOMAIN R |-> [R[r] EXCEPT !.status = "queued"]]

reemit_runs(R, scope) ==
  [r \in DOMAIN R |->
     IF r \in ReemitScanned(R, scope) /\ R[r].status # "done"
     THEN [R[r] EXCEPT !.status = "queued"] ELSE R[r]]

\* mutant: the stale-running resets are not counted
reset_running_steps_Zero(R, S, scope) == 0

\* reset_running_steps of the report: the rows of the stale-running UPDATEs
reset_running_steps(R, S, scope) ==
  Cardinality({p \in ReemitScanned(R, scope) \X (1..7) :
                 p[2] \in DOMAIN S[p[1]] /\ S[p[1]][p[2]].status = "running"})

\* the 'workers.reemit' event: scanned_runs of the report
ReemitEvent(R, S, scope) ==
  [Ev("workers.reemit", 0, 0) EXCEPT
     !.scanned = Cardinality(ReemitScanned(R, scope)), !.scope = scope,
     !.reset = reset_running_steps(R, S, scope)]

\* reemit_workers: one transaction over every scanned run
reemit_workers(scope) ==
  /\ steps' = reemit_steps(runs, steps, scope)
  /\ runs' = reemit_runs(runs, scope)

\* POST /api/workers/reemit and POST /api/bases/{id}/workers/reemit
api_workers_reemit(scope) ==
  /\ reemit_workers(scope)
  /\ appended' = 1
  /\ Emit(<<ReemitEvent(runs, steps, scope)>>)
  /\ UNCHANGED <<requeued, payload, now, sched, calls, hist, budget, race, comment, updated, worktrees, disk, repo, request>>

\* ---------------------------------------------------------------- runloop
\* idle_loops is only read modulo WatchdogTicks and ReconcilerTicks
IdlePeriod == 2 * WatchdogTicks

AfterIdle(idle) ==
  IF idle % WatchdogTicks = 0 THEN "watchdog"
  ELSE IF idle % ReconcilerTicks = 0 THEN "reconcile" ELSE "claim"

\* claim_next_step inside run_one_step_blocking; on None the iteration is idle
claim_next_step ==
  /\ sched.pc = "claim"
  /\ IF RunnableSet(runs, steps) # {}
     THEN LET p == FirstRunnable(runs, steps)
          IN /\ ClaimUpdated(steps, p[1], p[2])
             /\ steps' = PromoteSteps(steps, p[1], p[2])
             /\ runs' = PromoteRuns(runs, p[1])
             /\ sched' = [sched EXCEPT !.pc = "execute", !.run = p[1], !.pos = p[2]]
             /\ appended' = 1
             /\ Emit(<<Ev("step.running", p[1], p[2])>>)
     ELSE /\ sched' = [sched EXCEPT !.idle = (sched.idle + 1) % IdlePeriod,
                                    !.pc = AfterIdle((sched.idle + 1) % IdlePeriod)]
          /\ appended' = 0
          /\ Emit(<<>>)
          /\ UNCHANGED <<runs, steps>>
  /\ UNCHANGED <<requeued, payload, now, calls, hist, budget, race, comment, updated, worktrees, disk, repo, request>>

\* Bounded retries/backoff of execute_auto_rebase_sweep, on a partial failure
SweepAttempt(R, r) ==
  IF R[r].attempt < AUTO_REBASE_MAX_RETRIES
  THEN [R EXCEPT ![r].attempt = @ + 1, ![r].backoff = (R[r].attempt + 1) * BackoffSec]
  ELSE R

\* execute_auto_rebase_sweep: "ok" no branch failed, "conflict" some branch
\* failed, "bail" git fetch or gh pr list failed before any branch was tried
execute_auto_rebase_sweep(out) ==
  /\ runs[sched.run].wf = "auto-rebase"
  /\ out \in {"ok", "conflict", "bail"}
  /\ out # "ok" => budget.sweepFails > 0
  /\ budget' = IF out = "ok" THEN budget ELSE [budget EXCEPT !.sweepFails = @ - 1]
  /\ runs' = IF out = "conflict" THEN SweepAttempt(runs, sched.run) ELSE runs
  /\ hist' = [hist EXCEPT !.sweepExecs[sched.run] = @ + 1]
  /\ sched' = [sched EXCEPT !.pc = "finalize", !.res = IF out = "ok" THEN "ok" ELSE "err"]
  \* 'auto_rebase.result', in the transaction of the attempt bookkeeping
  /\ appended' = IF out = "bail" THEN 0 ELSE 1
  /\ Emit(IF out = "bail" THEN <<>> ELSE <<Ev("auto_rebase.result", sched.run, sched.pos)>>)

\* the pr step persists the URL of the pull request it created into the
\* context of the run, in a transaction of its own that appends no event
persist_pr_url(R, r, i, out) ==
  IF StepNames(R[r].wf)[i] = "pr" /\ out = "ok" THEN [R EXCEPT ![r].pr = r] ELSE R

\* the agent and PR-creation paths of execute_step_blocking
execute_agent(out) ==
  /\ runs[sched.run].wf = "feature-dev"
  /\ out \in {"ok", "err"}
  /\ LET testFailure == out = "err" /\ StepName(sched.run, sched.pos) = "test"
     IN /\ testFailure => budget.testFails > 0
        /\ budget' = IF testFailure THEN [budget EXCEPT !.testFails = @ - 1] ELSE budget
  /\ sched' = [sched EXCEPT !.pc = "finalize", !.res = out]
  /\ runs' = persist_pr_url(runs, sched.run, sched.pos, out)
  /\ appended' = 0
  /\ Emit(<<>>)
  /\ UNCHANGED <<hist, race, comment, updated, worktrees, disk, repo, request>>

execute_step_blocking(out) ==
  /\ sched.pc = "execute"
  /\ execute_auto_rebase_sweep(out) \/ execute_agent(out)
  /\ UNCHANGED <<steps, requeued, payload, now, calls, race, comment, updated, worktrees, disk, repo, request>>

\* after a cycle that ran, idle_loops = 0 and 0 % 20 = 0: the reconciler runs
AfterRan == [sched EXCEPT !.pc = "reconcile", !.idle = 0, !.run = 0, !.pos = 0,
                          !.res = "none"]

\* 'step.done', and 'run.done' when no step remains
finalize_done_appended(S, r, i) ==
  LET S2 == finalize_done_steps(S, r, i)
      remaining == Cardinality({j \in DOMAIN S2[r] : S2[r][j].status # "done"})
  IN IF remaining = 0 THEN 2 ELSE 1

\* mutant: 'run.done' is never inserted
finalize_done_events_StepOnly(S, r, i) == <<Ev("step.done", r, i)>>

\* the events of finalize_step_done, in insertion order
finalize_done_events(S, r, i) ==
  IF finalize_done_appended(S, r, i) = 2
  THEN <<Ev("step.done", r, i), Ev("run.done", r, 0)>>
  ELSE <<Ev("step.done", r, i)>>

finalize_step_done ==
  /\ sched.pc = "finalize" /\ sched.res = "ok"
  /\ appended' = finalize_done_appended(steps, sched.run, sched.pos)
  /\ Emit(finalize_done_events(steps, sched.run, sched.pos))
  /\ steps' = finalize_done_steps(steps, sched.run, sched.pos)
  /\ runs' = finalize_done_runs(runs, steps, sched.run, sched.pos)
  /\ sched' = AfterRan
  /\ UNCHANGED <<requeued, payload, now, calls, hist, budget, race, comment, updated, worktrees, disk, repo, request>>

finalize_step_failed ==
  /\ sched.pc = "finalize" /\ sched.res = "err"
  /\ steps' = finalize_failed_steps(runs, steps, requeued, sched.run, sched.pos)
  /\ runs' = finalize_failed_runs(runs, requeued, sched.run, sched.pos)
  /\ requeued' = finalize_failed_events(runs, requeued, sched.run, sched.pos)
  /\ hist' = [hist EXCEPT
                !.testFails[sched.run] =
                   IF StepName(sched.run, sched.pos) = "test" THEN @ + 1 ELSE @,
                !.requeueEvents =
                   IF TestRollback(runs, requeued, sched.run, sched.pos)
                   THEN @ \cup {requeue_event(requeued, sched.run)} ELSE @]
  /\ appended' = finalize_failed_appended(runs, requeued, sched.run, sched.pos)
  /\ Emit(step_failed_events(runs, requeued, sched.run, sched.pos))
  /\ sched' = AfterRan
  /\ UNCHANGED <<payload, now, calls, budget, race, comment, updated, worktrees, disk, repo, request>>

\* the safety net of runloop: reemit_workers(None) every 30th idle iteration
watchdog ==
  /\ sched.pc = "watchdog"
  /\ reemit_workers("global")
  /\ appended' = 1
  /\ Emit(<<ReemitEvent(runs, steps, "global")>>)
  /\ sched' = [sched EXCEPT !.pc = IF sched.idle % ReconcilerTicks = 0
                                   THEN "reconcile" ELSE "claim"]
  /\ UNCHANGED <<requeued, payload, now, calls, hist, budget, race, comment, updated, worktrees, disk, repo, request>>

\* ------------------------------------------------- queue_base_rebase_sweep
\* mutant: the stored flag is not read
payload_auto_rebase_enabled_Default(p) == TRUE

payload_auto_rebase_enabled(p) == p.enabled

\* the stored interval when it is at least 30, else the default
payload_auto_rebase_interval_sec(p) ==
  IF p.interval_sec >= MinIntervalSec THEN p.interval_sec
  ELSE DEFAULT_AUTO_REBASE_INTERVAL_SEC

\* return of the call: the reconciler goes on to its bookkeeping write
Return(c, ret) ==
  /\ calls' = [calls EXCEPT ![c] = [NoCall EXCEPT !.ret = ret]]
  /\ sched' = IF c = "rec" THEN [sched EXCEPT !.pc = "rec_write"] ELSE sched

\* find_base_entity, parse_payload, the enabled check, now_ms_i64
q_begin(b, reason, sha) ==
  IF ~ payload_auto_rebase_enabled(payload[b])
  THEN [NoCall EXCEPT !.ret = "not_queued"]
  ELSE [pc |-> "count", base |-> b, snap |-> payload[b], now_ms |-> now, run |-> 0,
        ret |-> "none", sha |-> sha, reason |-> reason]

\* mutant: the count looks at status 'running' only
running_or_queued_Running(R, b) ==
  Cardinality({r \in DOMAIN R : /\ R[r].wf = "auto-rebase"
                                /\ R[r].entity = b
                                /\ R[r].status \in {"running"}})

\* SELECT COUNT(*) ... status IN ('queued','running')
running_or_queued(R, b) ==
  Cardinality({r \in DOMAIN R : /\ R[r].wf = "auto-rebase"
                                /\ R[r].entity = b
                                /\ R[r].status \in {"queued", "running"}})

\* now_ms - last_enqueued_ms < interval_ms / 2
Debounced(snap, now_ms) ==
  (now_ms - snap.last_enqueued_ms) * SecPerUnit < payload_auto_rebase_interval_sec(snap) \div 2

\* coalescing and debounce checks
q_check(c) ==
  /\ calls[c].pc = "count"
  /\ IF running_or_queued(runs, calls[c].base) > 0 \/ Debounced(calls[c].snap, calls[c].now_ms)
     THEN Return(c, "not_queued")
     ELSE /\ calls' = [calls EXCEPT ![c].pc = "ins_run"]
          /\ UNCHANGED sched
  /\ appended' = 0
  /\ Emit(<<>>)
  /\ UNCHANGED <<runs, steps, requeued, payload, now, hist, budget, race, comment, updated, worktrees, disk, repo, request>>

\* INSERT INTO runs, its own implicit transaction
q_insert_run(c) ==
  /\ calls[c].pc = "ins_run"
  /\ runs' = Append(runs, [NewRun("auto-rebase", calls[c].base) EXCEPT
                              !.call_ms = calls[c].now_ms,
                              !.upstream_sha = calls[c].sha])
  /\ appended' = 0
  /\ Emit(<<>>)
  /\ steps' = Append(steps, <<>>)
  /\ requeued' = Append(requeued, 0)
  /\ hist' = [hist EXCEPT !.testFails = Append(@, 0), !.sweepExecs = Append(@, 0)]
  /\ calls' = [calls EXCEPT ![c].pc = "ins_step", ![c].run = Len(runs) + 1]
  /\ UNCHANGED <<payload, now, sched, budget, race, comment, updated, worktrees, disk, repo, request>>

\* INSERT INTO steps
q_insert_step(c) ==
  /\ calls[c].pc = "ins_step"
  /\ steps' = [steps EXCEPT ![calls[c].run] = <<QueuedStep>>]
  /\ calls' = [calls EXCEPT ![c].pc = "ins_event"]
  /\ appended' = 0
  /\ Emit(<<>>)
  /\ UNCHANGED <<runs, requeued, payload, now, sched, hist, budget, race, comment, updated, worktrees, disk, repo, request>>

\* INSERT INTO event_log 'auto_rebase.queued'
q_insert_event(c) ==
  /\ calls[c].pc = "ins_event"
  /\ calls' = [calls EXCEPT ![c].pc = "upd_payload"]
  /\ appended' = 1
  /\ Emit(<<[Ev("auto_rebase.queued", calls[c].run, 0) EXCEPT !.sha = calls[c].sha]>>)
  /\ UNCHANGED <<runs, steps, requeued, payload, now, sched, hist, budget, race, comment, updated, worktrees, disk, repo, request>>

\* update_entity_payload with the payload read at the start of the call
q_update_payload(c) ==
  /\ calls[c].pc = "upd_payload"
  /\ payload' = [payload EXCEPT ![calls[c].base] =
                   [calls[c].snap EXCEPT !.last_enqueued_ms = calls[c].now_ms]]
  /\ Return(c, "queued")
  /\ appended' = 0
  /\ Emit(<<>>)
  /\ UNCHANGED <<runs, steps, requeued, now, hist, budget, race, comment, updated, worktrees, disk, repo, request>>

queue_base_rebase_sweep(c) ==
  \/ q_check(c)
  \/ q_insert_run(c)
  \/ q_insert_step(c)
  \/ q_insert_event(c)
  \/ q_update_payload(c)

\* POST /api/bases/{id}/sync-now and the webhook triggers
api_bases_sync_now(b) ==
  /\ calls["http"].pc = "idle"
  /\ budget.rebase > 0
  /\ calls' = [calls EXCEPT !["http"] = q_begin(b, "manual.sync_now", "")]
  /\ budget' = [budget EXCEPT !.rebase = @ - 1]
  /\ appended' = 0
  /\ Emit(<<>>)
  /\ UNCHANGED <<runs, steps, requeued, payload, now, sched, hist, race, comment, updated, worktrees, disk, repo, request>>

\* mutant: an interval below 30 is accepted
patch_rejected_Never(input) == FALSE

\* if v < 30 { return Err(BAD_REQUEST) }
patch_rejected(input) == input.has_interval /\ input.interval_sec < MinIntervalSec

\* the local copy of the payload with the fields of the patch applied
patch_apply(p, input) ==
  [p EXCEPT !.enabled = IF input.has_enabled THEN input.enabled ELSE @,
            !.interval_sec = IF input.has_interval THEN input.interval_sec ELSE @]

\* PATCH /api/bases/{id}/auto-rebase up to the validation: find_base_entity,
\* the patch applied to a local copy, 400 before anything is written
api_base_auto_rebase_patch(b, input) ==
  /\ request.pc = "idle"
  /\ budget.patches > 0
  /\ budget' = [budget EXCEPT !.patches = @ - 1]
  /\ request' = IF patch_rejected(input)
                THEN [NoRequest EXCEPT !.op = "patch", !.base = b, !.patch = input,
                                       !.resp = "400"]
                ELSE [NoRequest EXCEPT !.op = "patch", !.base = b, !.patch = input,
                                       !.pc = "write",
                                       !.snap = patch_apply(payload[b], input)]
  /\ appended' = 0
  /\ Emit(<<>>)
  /\ UNCHANGED <<runs, steps, requeued, payload, now, sched, calls, hist, race, comment, updated, worktrees, disk, repo>>

\* update_entity_payload with the local copy, then the settings view
api_base_auto_rebase_patch_write ==
  /\ request.pc = "write"
  /\ payload' = [payload EXCEPT ![request.base] = request.snap]
  /\ request' = [request EXCEPT !.pc = "idle", !.snap = NoSnap, !.resp = "200"]
  /\ appended' = 0
  /\ Emit(<<>>)
  /\ UNCHANGED <<runs, steps, requeued, now, sched, calls, hist, budget, race, comment, updated, worktrees, disk, repo>>

\* trim_end_matches(".git"), then what follows git@github.com: or github.com/
parse_github_full_name(url) ==
  IF url.prefix = "git@github.com:" THEN url.rest
  ELSE IF url.prefix \in {"https://github.com/", "ssh://git@github.com/"} THEN url.rest
  ELSE "none"

\* git remote get-url origin, parsed
repo_full_name(b) == parse_github_full_name(repo[b].origin)

\* the bases whose origin is the repository of the webhook; none for ""
matching_bases_by_repo(full_name) ==
  IF full_name = "" THEN {}
  ELSE {b \in Bases : repo_full_name(b) # "none" /\ repo_full_name(b) = full_name}

\* "main" when git symbolic-ref fails, else rsplit('/').next(): the last
\* component of its output
detect_default_branch(g) ==
  IF g.origin_head = <<>> THEN <<"main">>
  ELSE <<g.origin_head[Len(g.origin_head)]>>

\* ref_name == format!("refs/heads/{default}")
push_ref_matches(hook, b) ==
  hook.ref = <<"refs", "heads">> \o detect_default_branch(repo[b])

\* matches!(action, "synchronize" | "opened" | "reopened") || closed and merged
pull_request_should(hook) ==
  \/ hook.action \in {"synchronize", "opened", "reopened"}
  \/ hook.action = "closed" /\ hook.merged

\* the bases for which the webhook calls queue_base_rebase_sweep
webhook_targets(hook) ==
  IF hook.event = "push"
  THEN {b \in matching_bases_by_repo(hook.repo) : push_ref_matches(hook, b)}
  ELSE IF hook.event = "pull_request" /\ pull_request_should(hook)
  THEN matching_bases_by_repo(hook.repo)
  ELSE {}

\* POST /api/github/webhook: the store holds one base, so the loops over
\* the matching bases call queue_base_rebase_sweep at most once
api_github_webhook(hook) ==
  /\ request.pc = "idle"
  /\ calls["http"].pc = "idle"
  /\ IF webhook_targets(hook) = {}
     THEN /\ request' = [NoRequest EXCEPT !.op = "webhook", !.hook = hook, !.resp = "200"]
          /\ UNCHANGED <<calls, budget>>
     ELSE \E b \in webhook_targets(hook) :
          /\ budget.rebase > 0
          /\ budget' = [budget EXCEPT !.rebase = @ - 1]
          /\ request' = [NoRequest EXCEPT !.op = "webhook", !.base = b, !.hook = hook,
                                          !.resp = "200"]
          /\ calls' = [calls EXCEPT !["http"] =
                         IF hook.event = "push"
                         THEN q_begin(b, "webhook.push", hook.after)
                         ELSE q_begin(b, "webhook.pull_request", hook.base_sha)]
  /\ appended' = 0
  /\ Emit(<<>>)
  /\ UNCHANGED <<runs, steps, requeued, payload, now, sched, hist, race, comment, updated, worktrees, disk, repo>>

\* periodic_rebase_reconciler: head is what git ls-remote reports ("" on error)
periodic_rebase_reconciler(b, head) ==
  /\ sched.pc = "reconcile"
  /\ LET moved == payload[b].last_head # head
         due == (now - payload[b].last_reconcile_ms) * SecPerUnit
                  >= payload_auto_rebase_interval_sec(payload[b])
     IN IF payload_auto_rebase_enabled(payload[b]) /\ head # "" /\ moved /\ due
        THEN /\ budget.passes \/ budget.rebase > 0
             /\ budget' = IF budget.passes THEN budget
                          ELSE [budget EXCEPT !.rebase = @ - 1]
             /\ calls' = [calls EXCEPT !["rec"] = q_begin(b, "periodic.reconciler", head)]
             /\ sched' = [sched EXCEPT !.pc = "rec_wait", !.base = b,
                                       !.snap = payload[b], !.head = head,
                                       !.now_ms = now]
        ELSE /\ sched' = [sched EXCEPT !.pc = "claim"]
             /\ UNCHANGED <<calls, budget>>
  /\ appended' = 0
  /\ Emit(<<>>)
  /\ UNCHANGED <<runs, steps, requeued, payload, now, hist, race, comment, updated, worktrees, disk, repo, request>>

\* the bookkeeping write of the reconciler, from the payload it read first
reconciler_write ==
  /\ sched.pc = "rec_write"
  /\ payload' = [payload EXCEPT ![sched.base] =
                   [sched.snap EXCEPT !.last_head = sched.head,
                                      !.last_reconcile_ms = sched.now_ms]]
  /\ sched' = [sched EXCEPT !.pc = "claim", !.base = "none", !.snap = NoSnap,
                            !.head = "", !.now_ms = 0]
  /\ appended' = 0
  /\ Emit(<<>>)
  /\ UNCHANGED <<runs, steps, requeued, now, calls, hist, budget, race, comment, updated, worktrees, disk, repo, request>>

\* time passes
Tick ==
  /\ budget.ticks > 0
  /\ now' = now + 1
  /\ appended' = 0
  /\ Emit(<<>>)
  /\ budget' = [budget EXCEPT !.ticks = @ - 1]
  /\ UNCHANGED <<runs, steps, requeued, payload, sched, calls, hist, race, comment, updated, worktrees, disk, repo, request>>

Next ==
  \/ \E f \in Features : api_feature_build(f)
  \/ \E scope \in {"global"} \cup Bases : api_workers_reemit(scope)
  \/ \E b \in Bases : api_bases_sync_now(b)
  \/ \E c \in Callers : queue_base_rebase_sweep(c)
  \/ claim_next_step
  \/ \E out \in {"ok", "err", "conflict", "bail"} : execute_step_blocking(out)
  \/ finalize_step_done
  \/ finalize_step_failed
  \/ watchdog
  \/ \E b \in Bases, head \in Heads \cup {""} : periodic_rebase_reconciler(b, head)
  \/ reconciler_write

Spec == Init /\ [][Next]_vars

\* ------------------------------------------- the auto-rebase controller alone
InitRebase ==
  /\ InitStore
  /\ budget = [feature |-> 0, rebase |-> MaxSweeps, testFails |-> 0,
               sweepFails |-> 1, ticks |-> MaxTicks, comments |-> 0,
               buildFails |-> 0, patches |-> 0, log |-> FALSE,
               passes |-> FALSE]

NextRebase ==
  \/ \E scope \in {"global"} \cup Bases : api_workers_reemit(scope)
  \/ \E b \in Bases : api_bases_sync_now(b)
  \/ \E c \in Callers : queue_base_rebase_sweep(c)
  \/ claim_next_step
  \/ \E out \in {"ok", "conflict", "bail"} : execute_step_blocking(out)
  \/ finalize_step_done
  \/ finalize_step_failed
  \/ watchdog
  \/ \E b \in Bases, head \in Heads \cup {""} : periodic_rebase_reconciler(b, head)
  \/ reconciler_write
  \/ Tick

SpecRebase == InitRebase /\ [][NextRebase]_vars

InitRetry ==
  /\ InitStore
  /\ budget = [feature |-> 0, rebase |-> 1, testFails |-> 0,
               sweepFails |-> MaxRetryFails, ticks |-> 0, comments |-> 0,
               buildFails |-> 0, patches |-> 0, log |-> FALSE,
               passes |-> FALSE]

\* no operator: only triggers and the runloop act
NextRetry ==
  \/ \E b \in Bases : api_bases_sync_now(b)
  \/ \E c \in Callers : queue_base_rebase_sweep(c)
  \/ claim_next_step
  \/ \E out \in {"ok", "conflict", "bail"} : execute_step_blocking(out)
  \/ finalize_step_done
  \/ finalize_step_failed
  \/ watchdog
  \/ \E b \in Bases, head \in Heads \cup {""} : periodic_rebase_reconciler(b, head)
  \/ reconciler_write

SpecRetry == InitRetry /\ [][NextRetry]_vars

\* --------------------------------------------- feature builds and the runloop
InitBuild ==
  /\ InitStore
  /\ budget = [feature |-> MaxBuilds, rebase |-> 0, testFails |-> 0, sweepFails |-> 0,
               ticks |-> 0, comments |-> 0,
               buildFails |-> MaxBuildFails, patches |-> 0, log |-> FALSE,
               passes |-> FALSE]

NextBuild ==
  \/ \E f \in Features : api_feature_build(f)
  \/ \E f \in Features, at \in BuildFailures : api_feature_build_failed(f, at)
  \/ claim_next_step
  \/ \E out \in {"ok", "err"} : execute_step_blocking(out)
  \/ finalize_step_done
  \/ finalize_step_failed
  \/ watchdog
  \/ \E b \in Bases : periodic_rebase_reconciler(b, "")

SpecBuild == InitBuild /\ [][NextBuild]_vars

\* ------------------------------------- the triggers of the auto-rebase sweep
\* the repositories a base can point to: a github origin or another host,
\* origin/HEAD unresolved, on main, or on a branch with a slash in its name
RepoShapes ==
  [origin : {[prefix |-> "git@github.com:", rest |-> "o/r", git |-> TRUE],
             [prefix |-> "https://github.com/", rest |-> "o/r", git |-> FALSE],
             [prefix |-> "https://gitlab.com/", rest |-> "o/r", git |-> TRUE]},
   origin_head : {<<>>, <<"refs", "remotes", "origin", "main">>,
                  <<"refs", "remotes", "origin", "release", "v1">>},
   remote_head : {""}]

\* the payloads a base can be stored with
PayloadShapes ==
  {[NoSnap EXCEPT !.enabled = e, !.interval_sec = i] :
     e \in BOOLEAN, i \in {0, MinIntervalSec - 1}}

\* the settings patches sent
Patches ==
  [has_enabled : {TRUE}, enabled : BOOLEAN, has_interval : BOOLEAN,
   interval_sec : {MinIntervalSec - 1, MinIntervalSec}]
  \cup {NoPatch}

\* the webhooks delivered
Hooks ==
  {[NoHook EXCEPT !.event = "push", !.repo = n, !.ref = p, !.after = "h1"] :
     n \in {"o/r", "x/y", ""},
     p \in {<<"refs", "heads", "main">>, <<"refs", "heads", "release", "v1">>,
            <<"refs", "heads", "v1">>, <<"refs", "tags", "main">>}}
  \cup {[NoHook EXCEPT !.event = "pull_request", !.repo = n, !.action = a[1],
                        !.merged = a[2], !.base_sha = "h2"] :
     n \in {"o/r", "x/y"},
     a \in {<<"opened", FALSE>>, <<"closed", TRUE>>, <<"closed", FALSE>>,
            <<"edited", FALSE>>}}
  \cup {[NoHook EXCEPT !.event = "ping", !.repo = "o/r"]}

InitTrigger ==
  /\ runs = <<>>
  /\ steps = <<>>
  /\ requeued = <<>>
  /\ payload \in [Bases -> PayloadShapes]
  /\ now = IntervalUnits
  /\ sched = [pc |-> "reconcile", run |-> 0, pos |-> 0, res |-> "none", idle |-> 0,
              base |-> "none", snap |-> NoSnap, head |-> "", now_ms |-> 0]
  /\ calls = [c \in Callers |-> NoCall]
  /\ hist = [testFails |-> <<>>, sweepExecs |-> <<>>, requeueEvents |-> {}]
  /\ race = NoRace
  /\ appended = 0
  /\ event_log = <<>>
  /\ comment = NoComment
  /\ updated = <<>>
  /\ worktrees = 0
  /\ emitted = <<>>
  /\ disk = 0
  /\ repo \in [Bases -> RepoShapes]
  /\ request = NoRequest
  /\ budget = [feature |-> 0, rebase |-> MaxTriggers, testFails |-> 0,
               sweepFails |-> 0, ticks |-> 0, comments |-> 0,
               buildFails |-> 0, patches |-> MaxPatches, log |-> FALSE,
               passes |-> FALSE]

NextTrigger ==
  \/ \E b \in Bases : api_bases_sync_now(b)
  \/ \E hook \in Hooks : api_github_webhook(hook)
  \/ \E b \in Bases, input \in Patches : api_base_auto_rebase_patch(b, input)
  \/ api_base_auto_rebase_patch_write
  \/ \E c \in Callers : queue_base_rebase_sweep(c)
  \/ \E b \in Bases, head \in Heads \cup {""} : periodic_rebase_reconciler(b, head)
  \/ reconciler_write

SpecTrigger == InitTrigger /\ [][NextTrigger]_vars

\* --------------------------------------- the reconciler and a stable remote
\* the remote head does not change; every sweep succeeds; the passes of the
\* reconciler are not counted against the bound on the sync-now requests
InitReconcile ==
  /\ runs = <<>>
  /\ steps = <<>>
  /\ requeued = <<>>
  /\ payload = [b \in Bases |-> NoSnap]
  /\ now = IntervalUnits
  /\ sched = [pc |-> "claim", run |-> 0, pos |-> 0, res |-> "none", idle |-> 0,
              base |-> "none", snap |-> NoSnap, head |-> "", now_ms |-> 0]
  /\ calls = [c \in Callers |-> NoCall]
  /\ hist = [testFails |-> <<>>, sweepExecs |-> <<>>, requeueEvents |-> {}]
  /\ race = NoRace
  /\ appended = 0
  /\ event_log = <<>>
  /\ comment = NoComment
  /\ updated = <<>>
  /\ worktrees = 0
  /\ emitted = <<>>
  /\ disk = 0
  /\ repo \in {[b \in Bases |-> [DefaultRepo EXCEPT !.remote_head = h]] :
                 h \in Heads \cup {""}}
  /\ request = NoRequest
  /\ budget = [feature |-> 0, rebase |-> MaxReconcileCalls, testFails |-> 0,
               sweepFails |-> 0, ticks |-> MaxReconcileTicks, comments |-> 0,
               buildFails |-> 0, patches |-> 0, log |-> FALSE,
               passes |-> TRUE]

\* one iteration of the runloop task with the remote as git reports it
runloop_reconcile ==
  \/ claim_next_step
  \/ execute_step_blocking("ok")
  \/ finalize_step_done
  \/ watchdog
  \/ \E b \in Bases : periodic_rebase_reconciler(b, repo[b].remote_head)
  \/ queue_base_rebase_sweep("rec")
  \/ reconciler_write

NextReconcile ==
  \/ runloop_reconcile
  \/ \E b \in Bases : api_bases_sync_now(b)
  \/ queue_base_rebase_sweep("http")
  \/ Tick

\* the runloop task loops for ever and a request handler runs to its end
SpecReconcile ==
  /\ InitReconcile
  /\ [][NextReconcile]_vars
  /\ WF_vars(runloop_reconcile)
  /\ WF_vars(queue_base_rebase_sweep("http"))

\* ------------------------------------------------------------ the happy path
\* every executor invocation succeeds; the runloop task is never starved
InitHappy ==
  /\ InitStore
  /\ budget = [feature |-> MaxFeatureRuns, rebase |-> 0, testFails |-> 0,
               sweepFails |-> 0, ticks |-> 0, comments |-> 0,
               buildFails |-> 0, patches |-> 0, log |-> TRUE,
               passes |-> FALSE]

runloop ==
  \/ claim_next_step
  \/ execute_step_blocking("ok")
  \/ finalize_step_done
  \/ watchdog
  \/ \E b \in Bases : periodic_rebase_reconciler(b, "")

NextHappy ==
  \/ \E f \in Features : api_feature_build(f)
  \/ runloop

SpecHappy == InitHappy /\ [][NextHappy]_vars /\ WF_vars(runloop)

\* ------------------------------------------------ concurrent claim attempts
\* A run as the scheduler leaves it between two cycles: its first d steps
\* done, the others queued
RunInProgress(wf, d, st) ==
  [wf |-> wf, status |-> st, entity |-> IF wf = "feature-dev" THEN "f1" ELSE "b1",
   attempt |-> 0, backoff |-> 0, pr |-> 0, call_ms |-> 0,
                  upstream_sha |-> ""]

StepsInProgress(wf, d) ==
  [i \in DOMAIN StepNames(wf) |->
     IF i <= d THEN [status |-> "done", output |-> "out"] ELSE QueuedStep]

RunShapes ==
  {<<wf, d, st>> \in {"feature-dev", "auto-rebase"} \X (0..7) \X {"queued", "running", "done"} :
     /\ d <= Len(StepNames(wf))
     /\ st = "done" <=> d = Len(StepNames(wf))
     /\ st = "running" => d > 0}

InitRace ==
  /\ \E n \in 1..MaxRaceRuns : \E shape \in [1..n -> RunShapes] :
       /\ runs = [r \in 1..n |-> RunInProgress(shape[r][1], shape[r][2], shape[r][3])]
       /\ steps = [r \in 1..n |-> StepsInProgress(shape[r][1], shape[r][2])]
       /\ requeued = [r \in 1..n |-> 0]
       /\ hist = [testFails |-> [r \in 1..n |-> 0], sweepExecs |-> [r \in 1..n |-> 0],
                  requeueEvents |-> {}]
  /\ payload = [b \in Bases |-> NoSnap]
  /\ now = IntervalUnits
  /\ sched = [pc |-> "off", run |-> 0, pos |-> 0, res |-> "none", idle |-> 0,
              base |-> "none", snap |-> NoSnap, head |-> "", now_ms |-> 0]
  /\ calls = [c \in Callers |-> NoCall]
  /\ budget = [feature |-> 0, rebase |-> 0, testFails |-> 0, sweepFails |-> 0,
               ticks |-> 0, comments |-> 0,
               buildFails |-> 0, patches |-> 0, log |-> FALSE,
               passes |-> FALSE]
  /\ appended = 0
  /\ event_log = <<>>
  /\ comment = NoComment
  /\ updated = <<>>
  /\ worktrees = 0
  /\ emitted = <<>>
  /\ disk = 0
  /\ repo = [b \in Bases |-> DefaultRepo]
  /\ request = NoRequest
  /\ \E n \in 0..MaxClaimers :
       race = [K |-> Cardinality(RunnableSet(runs, steps)),
               cl |-> [c \in Claimers |->
                         [pc |-> IF c <= n THEN "select" ELSE "off",
                          sel |-> NoStep, ret |-> NoStep]]]

\* the SELECT of claim_next_step; with no row the attempt commits and returns None
race_select(c) ==
  /\ race.cl[c].pc = "select"
  /\ race' = IF RunnableSet(runs, steps) = {}
             THEN [race EXCEPT !.cl[c].pc = "done"]
             ELSE [race EXCEPT !.cl[c].pc = "promote",
                               !.cl[c].sel = FirstRunnable(runs, steps)]
  /\ appended' = 0
  /\ Emit(<<>>)
  /\ UNCHANGED <<runs, steps, requeued, payload, now, sched, calls, hist, budget, comment, updated, worktrees, disk, repo, request>>

\* the conditional UPDATE; zero rows affected: the race is lost, return None
race_promote(c) ==
  /\ race.cl[c].pc = "promote"
  /\ LET r == race.cl[c].sel[1]
         i == race.cl[c].sel[2]
     IN IF ClaimUpdated(steps, r, i)
        THEN /\ steps' = PromoteSteps(steps, r, i)
             /\ runs' = PromoteRuns(runs, r)
             /\ race' = [race EXCEPT !.cl[c].pc = "done", !.cl[c].ret = <<r, i>>]
             /\ appended' = 1
             /\ Emit(<<Ev("step.running", r, i)>>)
        ELSE /\ race' = [race EXCEPT !.cl[c].pc = "done"]
             /\ appended' = 0
             /\ Emit(<<>>)
             /\ UNCHANGED <<runs, steps>>
  /\ UNCHANGED <<requeued, payload, now, sched, calls, hist, budget, comment, updated, worktrees, disk, repo, request>>

NextRace ==
  \/ \E c \in Claimers : race_select(c)
  \/ \E c \in Claimers : race_promote(c)

SpecRace == InitRace /\ [][NextRace]_vars

\* ------------------------------------------------------- Comment Re-emit
\* idempotency keys a request may carry; "none" stands for an absent key
Keys == {"none", "", "k1", " k1 "}

\* str::trim
Trim(k) == IF k = " k1 " THEN "k1" ELSE k

\* idempotency_key.as_deref().map(str::trim).filter(|s| !s.is_empty())
LookupKey(input) ==
  IF input.idempotency_key = "none" \/ Trim(input.idempotency_key) = ""
  THEN "none" ELSE Trim(input.idempotency_key)

CommentRows(L) == {i \in DOMAIN L : L[i].kind = "pr.comment.reemit"}

\* SELECT COUNT(*) ... json_extract(payload_json, '$.idempotency_key') = key
IdempotentReplay(L, input) ==
  /\ LookupKey(input) # "none"
  /\ \E i \in CommentRows(L) : L[i].idempotency_key = LookupKey(input)

\* one iteration of the lookup loop: run_id, then pr_url as Option equality
\* (None equals None), then pr_number when the request carries one
RowMatches(R, input, r) ==
  \/ input.run_id = r
  \/ input.pr_url = R[r].pr
  \/ (input.pr_number # 0 /\ input.pr_number = R[r].pr)

\* the first row, by updated_at DESC, that the loop breaks on; 0 when none
RECURSIVE FirstMatch(_, _, _)
FirstMatch(R, order, input) ==
  IF order = <<>> THEN 0
  ELSE IF RowMatches(R, input, Head(order)) THEN Head(order)
  ELSE FirstMatch(R, Tail(order), input)

\* SELECT MAX(ts_ms) ... base_id = b, elapsed < 15_000
RateLimited(L, b, now_ms) ==
  LET ts == {L[i].ts_ms : i \in {j \in CommentRows(L) : L[j].base = b}}
  IN b # "none" /\ ts # {} /\ now_ms - Max(ts) < RateLimitUnits

Reply(input, resp) ==
  [pc |-> "idle", input |-> input, resp |-> resp, run |-> 0, base |-> "none"]

\* a reply sent before anything is written
Reject(input, resp) ==
  /\ comment' = Reply(input, resp)
  /\ appended' = 0
  /\ emitted' = <<>>
  /\ UNCHANGED event_log

\* api_pr_comment up to the commit of its transaction; the request carries a
\* non-empty comment
api_pr_comment(input) ==
  /\ comment.pc = "idle"
  /\ budget.comments > 0
  /\ budget' = [budget EXCEPT !.comments = @ - 1]
  /\ LET m == FirstMatch(runs, updated, input)
         b == IF m = 0 THEN "none" ELSE payload_base_id(runs[m].entity)
     IN IF IdempotentReplay(event_log, input) THEN Reject(input, "idempotent_replay")
        ELSE IF m = 0 THEN Reject(input, "no_linked_factory_or_run")
        ELSE IF RateLimited(event_log, b, now) THEN Reject(input, "rate_limited")
        ELSE /\ event_log' = append_event(event_log,
                                EventRow("pr.comment.reemit", now, m, b,
                                         input.idempotency_key))
             /\ appended' = 1
             /\ emitted' = <<Ev("pr.comment.reemit", m, 0)>>
             /\ comment' = [pc |-> "sweep", input |-> input, resp |-> "none",
                            run |-> m, base |-> b]
  /\ UNCHANGED <<runs, steps, requeued, payload, now, sched, calls, hist, race,
                 updated, worktrees, disk, repo, request>>

\* run ids of T, largest first
RECURSIVE Desc(_)
Desc(T) == IF T = {} THEN <<>> ELSE <<Max(T)>> \o Desc(T \ {Max(T)})

\* updated_at after the sweep: the scanned runs are updated in created_at
\* order, the last one most recently
Touch(U, T) == Desc(T) \o SelectSeq(U, LAMBDA r : r \notin T)

\* the Re-emit sweep of an accepted request, a transaction of its own
api_pr_comment_reemit ==
  /\ comment.pc = "sweep"
  /\ LET scope == IF comment.base = "none" THEN "global" ELSE comment.base
     IN /\ reemit_workers(scope)
        /\ updated' = Touch(updated, ReemitScanned(runs, scope))
        /\ emitted' = <<ReemitEvent(runs, steps, scope)>>
  /\ event_log' = append_event(event_log, EventRow("workers.reemit", now, 0, "none", "none"))
  /\ appended' = 1
  /\ comment' = [comment EXCEPT !.pc = "idle", !.resp = "ok"]
  /\ UNCHANGED <<requeued, payload, now, sched, calls, hist, budget, race, worktrees, disk, repo, request>>

\* a run as a request finds it: d steps done, the next one running or failed
CommentShapes ==
  {<<"feature-dev", 2, "running">>, <<"feature-dev", 6, "failed">>,
   <<"feature-dev", 7, "done">>, <<"auto-rebase", 0, "running">>,
   <<"auto-rebase", 0, "failed">>}

CommentRun(r, shape) ==
  [RunInProgress(shape[1], shape[2], shape[3]) EXCEPT
     !.pr = IF shape[1] = "feature-dev" /\ shape[2] >= 6 THEN r ELSE 0]

CommentSteps(shape) ==
  [i \in DOMAIN StepNames(shape[1]) |->
     IF i <= shape[2] THEN [status |-> "done", output |-> "out"]
     ELSE IF i = shape[2] + 1
          THEN [status |-> shape[3], output |-> IF shape[3] = "failed" THEN "err" ELSE "null"]
          ELSE QueuedStep]

Inputs ==
  [run_id : 0..(MaxCommentRuns + 1), pr_url : 0..MaxCommentRuns,
   pr_number : 0..MaxCommentRuns, idempotency_key : Keys]

InitComment ==
  /\ \E n \in 1..MaxCommentRuns : \E shape \in [1..n -> CommentShapes] :
       /\ runs = [r \in 1..n |-> CommentRun(r, shape[r])]
       /\ steps = [r \in 1..n |-> CommentSteps(shape[r])]
       /\ requeued = [r \in 1..n |-> 0]
       /\ hist = [testFails |-> [r \in 1..n |-> 0], sweepExecs |-> [r \in 1..n |-> 0],
                  requeueEvents |-> {}]
       /\ updated \in {u \in [1..n -> 1..n] : \A i, j \in 1..n : u[i] = u[j] => i = j}
  /\ payload = [b \in Bases |-> NoSnap]
  /\ now = IntervalUnits
  /\ sched = [pc |-> "off", run |-> 0, pos |-> 0, res |-> "none", idle |-> 0,
              base |-> "none", snap |-> NoSnap, head |-> "", now_ms |-> 0]
  /\ calls = [c \in Callers |-> NoCall]
  /\ budget = [feature |-> 0, rebase |-> 0, testFails |-> 0, sweepFails |-> 0,
               ticks |-> MaxCommentTicks, comments |-> MaxComments,
               buildFails |-> 0, patches |-> 0, log |-> FALSE,
               passes |-> FALSE]
  /\ race = NoRace
  /\ appended = 0
  /\ event_log = <<>>
  /\ comment = NoComment
  /\ worktrees = 0
  /\ emitted = <<>>
  /\ disk = 0
  /\ repo = [b \in Bases |-> DefaultRepo]
  /\ request = NoRequest

NextComment ==
  \/ \E input \in Inputs : api_pr_comment(input)
  \/ api_pr_comment_reemit
  \/ Tick

SpecComment == InitComment /\ [][NextComment]_vars

\* ------------------------------------------------- Re-emit over two bases
\* a run in progress and the entity it originates from ("none": no entity)
ScopeShapes ==
  ({<<"feature-dev", 2, "running">>, <<"feature-dev", 4, "failed">>,
    <<"feature-dev", 7, "done">>} \X {"f1", "f2", "none"})
  \cup {<<<<"auto-rebase", 0, "running">>, "b1">>}

InitScope ==
  /\ \E n \in 1..MaxScopeRuns : \E shape \in [1..n -> ScopeShapes] :
       /\ runs = [r \in 1..n |-> [CommentRun(r, shape[r][1]) EXCEPT !.entity = shape[r][2]]]
       /\ steps = [r \in 1..n |-> CommentSteps(shape[r][1])]
       /\ requeued = [r \in 1..n |-> 0]
       /\ hist = [testFails |-> [r \in 1..n |-> 0], sweepExecs |-> [r \in 1..n |-> 0],
                  requeueEvents |-> {}]
  /\ payload = [b \in Bases |-> NoSnap]
  /\ now = IntervalUnits
  /\ sched = [pc |-> "off", run |-> 0, pos |-> 0, res |-> "none", idle |-> 0,
              base |-> "none", snap |-> NoSnap, head |-> "", now_ms |-> 0]
  /\ calls = [c \in Callers |-> NoCall]
  /\ budget = [feature |-> 0, rebase |-> 0, testFails |-> 0, sweepFails |-> 0,
               ticks |-> 0, comments |-> 0,
               buildFails |-> 0, patches |-> 0, log |-> FALSE,
               passes |-> FALSE]
  /\ race = NoRace
  /\ appended = 0
  /\ event_log = <<>>
  /\ comment = NoComment
  /\ updated = <<>>
  /\ worktrees = 0
  /\ emitted = <<>>
  /\ disk = 0
  /\ repo = [b \in Bases |-> DefaultRepo]
  /\ request = NoRequest

NextScope == \E scope \in {"global", "b1", "b2"} : api_workers_reemit(scope)

SpecScope == InitScope /\ [][NextScope]_vars

\* ------------------------------------------- Re-emit over any step statuses
\* the steps table has no constraint on status and defaults to 'waiting'
StepStatuses == {"queued", "pending", "waiting", "running", "done", "failed", "skipped"}

\* a step row in a status, with the output that status was stored with
StepIn(st) ==
  [status |-> st,
   output |-> IF st = "done" THEN "out" ELSE IF st = "failed" THEN "err" ELSE "null"]

\* the steps of a run: plan and setup done, the next ReemitWindow steps in
\* any status, the rest queued; the single step of a sweep in any status
ReemitStepShapes(wf) ==
  IF wf = "auto-rebase" THEN {<<StepIn(st)>> : st \in StepStatuses}
  ELSE {[i \in 1..7 |-> IF i <= 2 THEN StepIn("done")
                        ELSE IF i <= 2 + ReemitWindow THEN StepIn(w[i - 2])
                        ELSE QueuedStep] :
          w \in [1..ReemitWindow -> StepStatuses]}

\* workflow and originating entity of a run
ReemitRunShapes ==
  {<<"feature-dev", "f1">>, <<"feature-dev", "f2">>, <<"auto-rebase", "b1">>}

InitReemit ==
  /\ \E n \in 1..MaxReemitRuns :
     \E shape \in [1..n -> ReemitRunShapes] :
     \E st \in [1..n -> {"queued", "running", "failed", "done"}] :
       /\ runs = [r \in 1..n |->
                    [RunInProgress(shape[r][1], 0, st[r]) EXCEPT !.entity = shape[r][2]]]
       /\ steps \in {ss \in [1..n -> UNION {ReemitStepShapes(w) : w \in {"feature-dev", "auto-rebase"}}] :
                       \A r \in 1..n : ss[r] \in ReemitStepShapes(shape[r][1])}
       /\ requeued = [r \in 1..n |-> 0]
       /\ hist = [testFails |-> [r \in 1..n |-> 0], sweepExecs |-> [r \in 1..n |-> 0],
                  requeueEvents |-> {}]
  /\ payload = [b \in Bases |-> NoSnap]
  /\ now = IntervalUnits
  /\ sched = [pc |-> "off", run |-> 0, pos |-> 0, res |-> "none", idle |-> 0,
              base |-> "none", snap |-> NoSnap, head |-> "", now_ms |-> 0]
  /\ calls = [c \in Callers |-> NoCall]
  /\ budget = [feature |-> 0, rebase |-> 0, testFails |-> 0, sweepFails |-> 0,
               ticks |-> 0, comments |-> 0,
               buildFails |-> 0, patches |-> 0, log |-> FALSE,
               passes |-> FALSE]
  /\ race = NoRace
  /\ appended = 0
  /\ event_log = <<>>
  /\ comment = NoComment
  /\ updated = <<>>
  /\ worktrees = 0
  /\ emitted = <<>>
  /\ disk = 0
  /\ repo = [b \in Bases |-> DefaultRepo]
  /\ request = NoRequest

NextReemit == \E scope \in {"global", "b1", "b2"} : api_workers_reemit(scope)

SpecReemit == InitReemit /\ [][NextReemit]_vars

\* ------------------------------------------------------------------ claims
StatusIs(r, i, st) == steps[r][i].status = st
RunningSteps(r) == {i \in Pos(r) : StatusIs(r, i, "running")}
FailedSteps(r) == {i \in Pos(r) : StatusIs(r, i, "failed")}
Finished(r, i) == steps[r][i].status \in {"done", "skipped"}
RetryInFlight(r) == runs[r].status \in {"queued", "running"}

\* C1: every run has at most one step with status running, in every
\* reachable state
C1_SingleRunning == \A r \in RunIds : Cardinality(RunningSteps(r)) <= 1

\* a step runs in one run while Re-emit has requeued a failed sweep next to it
C1_Witness ==
  \E a, b \in RunIds :
    /\ a # b /\ Cardinality(RunningSteps(a)) = 1
    /\ runs[b].status = "queued" /\ runs[b].attempt >= 1

\* C2: a failed run stays failed over every step the scheduler loop takes on
\* its own (only an operator's Re-emit may requeue it)
C2_FailedIsTerminal ==
  [][\A r \in RunIds :
       (runs[r].status = "failed" /\ sched' # sched) => runs'[r].status = "failed"]_vars

\* C3: after K failures of its test step a run has exactly min(K, 2)
\* run.requeued.test_failed events, never more than max_retries
C3_TestRetryBudget ==
  \A r \in RunIds :
    /\ requeued[r] = IF hist.testFails[r] < max_retries THEN hist.testFails[r]
                     ELSE max_retries
    /\ requeued[r] <= max_retries

\* the test step failed a third time and Re-emit requeued the run
C3_Witness ==
  \E r \in RunIds :
    /\ hist.testFails[r] > max_retries /\ requeued[r] = max_retries
    /\ runs[r].status = "queued"

\* C4: the step of an auto-rebase run is executed again after a failed sweep
\* at most AUTO_REBASE_MAX_RETRIES times, auto_rebase_attempt never exceeds
\* that maximum and auto_rebase_backoff_sec is 30 times auto_rebase_attempt
C4_SweepRetryBound ==
  \A r \in RunIds :
    runs[r].wf = "auto-rebase" =>
      /\ hist.sweepExecs[r] <= 1 + AUTO_REBASE_MAX_RETRIES
      /\ runs[r].attempt <= AUTO_REBASE_MAX_RETRIES
      /\ runs[r].backoff = BackoffSec * runs[r].attempt

\* C5: each base has at most one auto-rebase run that is queued or running
C5_OneActiveSweep == \A b \in Bases : running_or_queued(runs, b) <= 1

\* C7: no step is done while a step of smaller index is neither done nor
\* skipped
C7_DonePrefix ==
  \A r \in RunIds : \A i \in Pos(r) :
    StatusIs(r, i, "done") => \A j \in Pos(r) : j < i => Finished(r, j)

\* C8: a step is running only if every step of smaller index of its run is
\* done or skipped
C8_RunningPrefix ==
  \A r \in RunIds : \A i \in Pos(r) :
    StatusIs(r, i, "running") => \A j \in Pos(r) : j < i => Finished(r, j)

\* the test step runs again after a rollback
C8_Witness ==
  \E r \in RunIds : 5 \in RunningSteps(r) /\ requeued[r] >= 1

\* C9: a run is done if and only if every one of its steps is done or skipped
C9_RunDoneIff ==
  \A r \in RunIds : runs[r].status = "done" <=> \A i \in Pos(r) : Finished(r, i)

\* C10: a run is failed if and only if one of its steps is failed and no
\* retry of the run is in flight
C10_RunFailedIff ==
  \A r \in RunIds :
    /\ runs[r].status = "failed" <=> (FailedSteps(r) # {} /\ ~ RetryInFlight(r))
    /\ FailedSteps(r) # {} => ~ RetryInFlight(r)

\* a run failed for good: its test step failed with the retry budget used up
C10_Witness ==
  \E r \in RunIds :
    /\ runs[r].status = "failed" /\ requeued[r] = max_retries
    /\ FailedSteps(r) = {5}

\* claim attempts launched, steps returned, steps promoted
Launched == {c \in Claimers : race.cl[c].pc # "off"}
Winners == {c \in Launched : race.cl[c].ret # NoStep}
Promoted == {p \in (RunIds \X (1..7)) : p[2] \in Pos(p[1]) /\ StatusIs(p[1], p[2], "running")}
RaceOver == \A c \in Launched : race.cl[c].pc = "done"
MinNK == IF Cardinality(Launched) < race.K THEN Cardinality(Launched) ELSE race.K

\* C6 as stated: N concurrent attempts over K runnable steps promote
\* exactly min(N, K) steps, none returned twice, the others return nothing
C6_ExactlyMinNK ==
  RaceOver =>
    /\ Cardinality(Promoted) = MinNK
    /\ \A c, d \in Winners : c # d => race.cl[c].ret # race.cl[d].ret

\* C6 amended: at least one step (when N, K >= 1) and at most min(N, K) steps
\* are promoted, each promoted step is returned to exactly one attempt, and
\* every attempt that promoted nothing returns no step
C6_AtMostMinNK ==
  RaceOver =>
    /\ Cardinality(Promoted) <= MinNK
    /\ MinNK >= 1 => Cardinality(Promoted) >= 1
    /\ \A c, d \in Winners : c # d => race.cl[c].ret # race.cl[d].ret
    /\ Promoted = {race.cl[c].ret : c \in Winners}

C6_Witness ==
  /\ RaceOver
  /\ Cardinality(Launched) >= 2 /\ race.K >= 2
  /\ Cardinality(Promoted) < MinNK
  /\ \E c \in Launched : race.cl[c].sel # NoStep /\ race.cl[c].ret = NoStep

\* C11: when finalize handles a failure of the test step of a run that has
\* fewer than 2 run.requeued.test_failed events, the test step and every
\* later step are queued with output cleared, the implement step is queued,
\* the run is running, and exactly one run.requeued.test_failed event with
\* attempt = prior count + 1 and max_attempts = 2 is appended
C11_TestFailureRollback ==
  [][\A r \in RunIds :
       (/\ sched.pc = "finalize" /\ sched.res = "err" /\ sched.run = r
        /\ sched'.pc # "finalize"
        /\ StepName(r, sched.pos) = "test"
        /\ requeued[r] < 2)
       => /\ \A j \in Pos(r) :
               j >= sched.pos => steps'[r][j] = [status |-> "queued", output |-> "null"]
          /\ \A j \in Pos(r) : StepName(r, j) = "implement" => steps'[r][j].status = "queued"
          /\ runs'[r].status = "running"
          /\ requeued'[r] = requeued[r] + 1
          /\ hist'.requeueEvents = hist.requeueEvents \cup {<<r, requeued[r] + 1, 2>>}
          /\ <<r, requeued[r] + 1, 2>> \notin hist.requeueEvents]_vars

\* the second rollback of a run: implement requeued, verify still done
C11_Witness ==
  \E r \in RunIds :
    /\ <<r, 2, 2>> \in hist.requeueEvents
    /\ runs[r].status = "running" /\ sched.pc = "reconcile"
    /\ steps[r][3].status = "queued" /\ steps[r][4].status = "done"
    /\ steps[r][5] = [status |-> "queued", output |-> "null"]

\* C12: two queue_base_rebase_sweep calls for one base less than half an
\* interval apart never both create an auto-rebase run, whatever became of
\* the run of the first call
C12_Debounce ==
  \A r1, r2 \in RunIds :
    (/\ r1 < r2
     /\ runs[r1].wf = "auto-rebase" /\ runs[r2].wf = "auto-rebase"
     /\ runs[r1].entity = runs[r2].entity)
    => runs[r2].call_ms - runs[r1].call_ms >= IntervalUnits \div 2

\* auto-rebase runs of base b that are queued or running
ActiveSweeps(b) ==
  {r \in RunIds : /\ runs[r].wf = "auto-rebase" /\ runs[r].entity = b
                  /\ runs[r].status \in {"queued", "running"}}

\* C13: a queue_base_rebase_sweep call that finds an auto-rebase run of the
\* base queued or running inserts no run, no step and no event, leaves the
\* base payload unchanged and returns queued = false
C13_CoalescingNoOp ==
  [][\A c \in Callers :
       (/\ calls[c].pc = "count" /\ calls'[c].pc # "count"
        /\ ActiveSweeps(calls[c].base) # {})
       => /\ runs' = runs /\ steps' = steps /\ payload' = payload
          /\ appended' = 0
          /\ calls'[c].pc = "idle" /\ calls'[c].ret = "not_queued"]_vars

\* sync-now returned queued = false while the run of the reconciler's call,
\* whose timestamp is not stored yet, is queued
C13_Witness ==
  /\ calls["http"].pc = "idle" /\ calls["http"].ret = "not_queued"
  /\ calls["rec"].pc = "ins_event" /\ budget.rebase = 0
  /\ ActiveSweeps("b1") # {}
  /\ payload["b1"].last_enqueued_ms = 0

\* a step that handles one Comment Re-emit request, up to its commit
CommentRequest == comment.pc = "idle" /\ budget'.comments = budget.comments - 1

\* C14: a Comment Re-emit whose non-empty idempotency_key is carried by a prior
\* pr.comment.reemit event is answered idempotent_replay and appends no event,
\* runs no sweep and changes no run or step, also inside the rate-limit window
C14_IdempotentReplay ==
  [][(/\ CommentRequest
      /\ comment'.input.idempotency_key \notin {"none", ""}
      /\ \E i \in CommentRows(event_log) :
            event_log[i].idempotency_key = comment'.input.idempotency_key)
     => /\ comment'.resp = "idempotent_replay"
        /\ comment'.pc = "idle"
        /\ event_log' = event_log
        /\ runs' = runs
        /\ steps' = steps]_vars

\* the runs a request refers to: the run whose id is run_id, else the runs whose
\* PR is the request's pr_url or pr_number
RefRuns(input) ==
  IF input.run_id \in DOMAIN runs THEN {input.run_id}
  ELSE {r \in DOMAIN runs :
          runs[r].pr # 0 /\ (input.pr_url = runs[r].pr \/ input.pr_number = runs[r].pr)}

\* the request carries no key, or one that no prior pr.comment.reemit event carries
NewOrNoKey(input) ==
  \/ input.idempotency_key \in {"none", ""}
  \/ \A i \in CommentRows(event_log) :
       Trim(event_log[i].idempotency_key) # Trim(input.idempotency_key)

\* C15: a Comment Re-emit with a new or no key, for a base that has a
\* pr.comment.reemit event recorded less than 15 s ago, is answered rate_limited,
\* appends no event, runs no sweep and changes no run or step
C15_RateLimit ==
  [][\A b \in Bases :
       (/\ CommentRequest
        /\ NewOrNoKey(comment'.input)
        /\ RefRuns(comment'.input) # {}
        /\ \A r \in RefRuns(comment'.input) : payload_base_id(runs[r].entity) = b
        /\ \E i \in CommentRows(event_log) :
              event_log[i].base = b /\ now - event_log[i].ts_ms < RateLimitUnits)
       => /\ comment'.resp = "rate_limited"
          /\ comment'.pc = "idle"
          /\ event_log' = event_log
          /\ runs' = runs
          /\ steps' = steps]_vars

\* C16: an accepted Comment Re-emit whose run_id is the id of an existing run
\* records that run and sweeps the scope of that run's base, whatever PR the
\* other runs carry
C16_RunIdFirst ==
  [][(/\ CommentRequest
      /\ comment'.input.run_id \in DOMAIN runs
      /\ comment'.pc = "sweep")
     => /\ comment'.run = comment'.input.run_id
        /\ comment'.base = payload_base_id(runs[comment'.input.run_id].entity)
        /\ event_log'[Len(event_log')].run = comment'.input.run_id]_vars

\* C17: a Comment Re-emit whose references match no run is answered
\* no_linked_factory_or_run, appends no event and changes no run or step
C17_NoLinkedRun ==
  [][(/\ CommentRequest
      /\ NewOrNoKey(comment'.input)
      /\ RefRuns(comment'.input) = {})
     => /\ comment'.resp = "no_linked_factory_or_run"
        /\ comment'.pc = "idle"
        /\ event_log' = event_log
        /\ runs' = runs
        /\ steps' = steps]_vars

\* C18: a commit that changes run, step or worktree rows appends at least one
\* event, so the revision MAX(seq) grows with every such change
C18_ChangeAppendsEvent ==
  [][(runs' # runs \/ steps' # steps \/ worktrees' # worktrees) => appended' >= 1]_vars

\* C19: seq values strictly increase in insertion order, a row once inserted is
\* never deleted or rewritten, and the revision get_rev never decreases
C19_RevisionMonotonic ==
  [][/\ Len(event_log') >= Len(event_log)
     /\ SubSeq(event_log', 1, Len(event_log)) = event_log
     /\ \A i, j \in DOMAIN event_log' : i < j => event_log'[i].seq < event_log'[j].seq
     /\ get_rev(event_log') >= get_rev(event_log)]_vars

\* two accepted requests and their sweeps have appended four events
C19_Witness ==
  /\ Len(event_log) = 4
  /\ event_log[4].seq = 4
  /\ event_log[3].kind = "pr.comment.reemit"
  /\ get_rev(event_log) = 4

\* C20: a feature build adds, in one commit, exactly one run (feature-dev,
\* queued), its seven steps plan, setup, implement, verify, test, pr, review at
\* step_index 0..6, all queued, and one worktree row; no state holds a feature
\* run with only part of its steps or without its worktree
C20_FeatureRunShape ==
  [][/\ (budget'.feature < budget.feature) =>
          LET n == Len(runs') IN
          /\ n = Len(runs) + 1
          /\ SubSeq(runs', 1, Len(runs)) = runs
          /\ runs'[n].wf = "feature-dev"
          /\ runs'[n].status = "queued"
          /\ Len(steps') = n
          /\ SubSeq(steps', 1, Len(steps)) = steps
          /\ DOMAIN steps'[n] = 1..7
          /\ StepNames(runs'[n].wf) =
               <<"plan", "setup", "implement", "verify", "test", "pr", "review">>
          /\ \A i \in 1..7 : steps'[n][i].status = "queued"
          /\ worktrees' = worktrees + 1
     /\ \A r \in DOMAIN runs' :
          runs'[r].wf = "feature-dev" => (r \in DOMAIN steps' /\ Len(steps'[r]) = 7)
     /\ worktrees' = Cardinality({r \in DOMAIN runs' : runs'[r].wf = "feature-dev"})]_vars

\* the runloop has claimed the first step of a feature run that a build created
C20_Witness ==
  /\ worktrees = 1
  /\ Len(runs) = 1
  /\ runs[1].wf = "feature-dev"
  /\ runs[1].status = "running"
  /\ Len(steps[1]) = 7
  /\ steps[1][1].status = "running"
  /\ \A i \in 2..7 : steps[1][i].status = "queued"
  /\ sched.pc = "execute"

\* C21: a feature build whose store transaction does not commit leaves no run,
\* step or worktree row and no worktree directory of its own on disk
C21_RollbackCleanup ==
  [][(budget'.buildFails < budget.buildFails)
     => /\ runs' = runs
        /\ steps' = steps
        /\ worktrees' = worktrees
        /\ disk' = disk]_vars

DoneSteps(S, r) == {i \in DOMAIN S[r] : S[r][i].status = "done"}
Logged(kind, r) ==
  Cardinality({i \in DOMAIN event_log : event_log[i].kind = kind /\ event_log[i].run = r})

\* C22: with every executor invocation succeeding and the runloop scheduled
\* fairly, a feature run that was created is eventually done; its steps become
\* done one at a time in increasing step_index order; once it is done the log
\* holds exactly seven step.done events and one run.done event of it
C22_HappyPath ==
  /\ \A r \in 1..MaxFeatureRuns :
       (r \in DOMAIN runs) ~> (r \in DOMAIN runs /\ runs[r].status = "done")
  /\ [][\A r \in DOMAIN steps :
          \/ DoneSteps(steps', r) = DoneSteps(steps, r)
          \/ /\ DoneSteps(steps, r) # DOMAIN steps[r]
             /\ DoneSteps(steps', r) =
                  DoneSteps(steps, r) \cup {Min(DOMAIN steps[r] \ DoneSteps(steps, r))}]_vars
  /\ [](\A r \in DOMAIN runs :
          runs[r].status = "done" => Logged("step.done", r) = 7 /\ Logged("run.done", r) = 1)

\* the run is done and the log holds its eight completion events
C22_Witness ==
  /\ Len(runs) = 1
  /\ runs[1].status = "done"
  /\ DoneSteps(steps, 1) = 1..7
  /\ Logged("step.done", 1) = 7
  /\ Logged("run.done", 1) = 1
  /\ event_log[Len(event_log)].kind = "run.done"

\* the run originates from an entity whose payload.base_id is b
InScope(r, b) ==
  \/ runs[r].entity = "f1" /\ b = "b1"
  \/ runs[r].entity = "f2" /\ b = "b2"

\* C23: Re-emit scoped to base b leaves the runs of other bases and the runs
\* without an entity, and their steps, as they are, and its report counts the
\* in-scope runs only
C23_ScopedFrame ==
  [][\A b \in {"b1", "b2"} :
       (/\ Len(emitted') = 1
        /\ emitted'[1].kind = "workers.reemit"
        /\ emitted'[1].scope = b)
       => /\ \A r \in DOMAIN runs :
               ~ InScope(r, b) => runs'[r] = runs[r] /\ steps'[r] = steps[r]
          /\ emitted'[1].scanned =
               Cardinality({r \in DOMAIN runs :
                              /\ InScope(r, b)
                              /\ runs[r].status \in {"queued", "running", "failed"}})]_vars

\* Re-emit scoped to b1 has requeued the run of f1 and left the one of f2 running
C23_Witness ==
  /\ Len(emitted) = 1
  /\ emitted[1].kind = "workers.reemit"
  /\ emitted[1].scope = "b1"
  /\ emitted[1].scanned = 1
  /\ \E r1, r2 \in DOMAIN runs :
       /\ runs[r1].entity = "f1" /\ runs[r1].status = "queued"
       /\ steps[r1][3].status = "queued"
       /\ runs[r2].entity = "f2" /\ runs[r2].status = "running"
       /\ steps[r2][3].status = "running"

\* C24: a successful claim sets the chosen step to running, promotes its run
\* from queued to running and leaves a running run as it is, appends exactly
\* one step.running event, and modifies no other run or step
C24_ClaimPromotion ==
  [][(sched.pc = "claim" /\ sched'.pc = "execute")
     => LET r == sched'.run
            i == sched'.pos
        IN /\ steps[r][i].status \in {"queued", "pending"}
           /\ steps'[r][i].status = "running"
           /\ runs[r].status \in {"queued", "running"}
           /\ runs'[r] = [runs[r] EXCEPT !.status = "running"]
           /\ \A j \in DOMAIN steps[r] : j # i => steps'[r][j] = steps[r][j]
           /\ \A q \in DOMAIN runs : q # r => runs'[q] = runs[q] /\ steps'[q] = steps[q]
           /\ DOMAIN runs' = DOMAIN runs
           /\ emitted' = <<Ev("step.running", r, i)>>]_vars

\* the claim has promoted a queued run next to another run that stays queued
C24_Witness ==
  /\ sched.pc = "execute"
  /\ Len(runs) = 2
  /\ runs[sched.run].status = "running"
  /\ steps[sched.run][sched.pos].status = "running"
  /\ emitted = <<Ev("step.running", sched.run, sched.pos)>>
  /\ \E q \in DOMAIN runs : q # sched.run /\ runs[q].status = "queued"

\* a step in which a trigger of the sweep is handled: sync-now or a webhook
\* calls queue_base_rebase_sweep, or the reconciler visits the bases
TriggerStep ==
  \/ calls["http"].pc = "idle" /\ calls'["http"] # calls["http"]
  \/ sched.pc = "reconcile" /\ sched'.pc # "reconcile"

\* C25: a trigger (sync-now, push or pull_request webhook, periodic
\* reconciler) handled while the base has auto_rebase_enabled = false
\* inserts no run, no step and no event, leaves the payload unchanged and
\* starts no enqueue: the call has returned Ok(false) in the same step
C25_DisabledNeverSweeps ==
  [][(TriggerStep /\ \A b \in Bases : payload[b].enabled = FALSE)
       => /\ runs' = runs
          /\ steps' = steps
          /\ payload' = payload
          /\ emitted' = <<>>
          /\ \A c \in Callers :
               \/ calls'[c] = calls[c]
               \/ calls'[c] = [NoCall EXCEPT !.ret = "not_queued"]
          /\ sched'.pc \in {sched.pc, "claim"}]_vars

\* a pull_request webhook for the repository of a disabled base was handled
\* and the call it made returned Ok(false) with no run in the store
C25_Witness ==
  /\ payload["b1"].enabled = FALSE
  /\ request.op = "webhook"
  /\ request.hook.event = "pull_request"
  /\ request.base = "b1"
  /\ calls["http"].ret = "not_queued"
  /\ sched.pc = "claim"
  /\ runs = <<>>

\* the branch that origin/HEAD of the base points to, as a path; main when
\* origin/HEAD cannot be resolved
DefaultBranchOf(b) ==
  IF repo[b].origin_head = <<>> THEN <<"main">>
  ELSE SubSeq(repo[b].origin_head, 4, Len(repo[b].origin_head))

\* C26: a push webhook starts an enqueue for a base only when the
\* repository of the webhook is the origin of the base and its ref is
\* refs/heads/<default branch of the base>, with payload.after as the
\* upstream_sha; the run the enqueue inserts carries that upstream_sha
C26_PushGating ==
  /\ [][(calls["http"].pc = "idle" /\ calls'["http"].reason = "webhook.push")
          => LET b == calls'["http"].base
                 hook == request'.hook
             IN /\ hook.event = "push"
                /\ hook.repo = repo[b].origin.rest
                /\ hook.ref = <<"refs", "heads">> \o DefaultBranchOf(b)
                /\ calls'["http"].sha = hook.after]_vars
  /\ [][(/\ calls["http"].reason = "webhook.push"
           /\ calls["http"].pc = "ins_run"
           /\ calls'["http"].pc = "ins_step")
          => /\ Len(runs') = Len(runs) + 1
             /\ runs'[Len(runs')].entity = calls["http"].base
             /\ runs'[Len(runs')].upstream_sha = calls["http"].sha]_vars

\* C27: a settings PATCH whose auto_rebase_interval_sec is below 30 is
\* answered 400 in the step that handles it, writes nothing then or later
\* (the payload is unchanged, the enabled value of the same request
\* included), and the interval that debounce and reconciliation use, from
\* the stored payload or from the payload an enqueue read, is at least 30
C27_PatchRejected ==
  /\ [][(/\ budget'.patches < budget.patches
          /\ request'.patch.has_interval
          /\ request'.patch.interval_sec < 30)
          => /\ request'.resp = "400"
             /\ request'.pc = "idle"
             /\ payload' = payload]_vars
  /\ [][(request.op = "patch" /\ request.pc = "write" /\ payload' # payload)
          => ~ (request.patch.has_interval /\ request.patch.interval_sec < 30)]_vars
  /\ [](\A b \in Bases : payload_auto_rebase_interval_sec(payload[b]) >= 30)
  /\ [](\A c \in Callers : payload_auto_rebase_interval_sec(calls[c].snap) >= 30)

\* a PATCH with interval 29 and an enabled value that differs from the
\* stored one was answered 400
C27_Witness ==
  /\ request.op = "patch"
  /\ request.resp = "400"
  /\ request.patch.interval_sec = 29
  /\ request.patch.has_enabled
  /\ request.patch.enabled # payload[request.base].enabled

\* a step that claim_next_step may return: queued or pending, its run
\* queued or running, every earlier step of the run done or skipped, no
\* step of the run running
Claimable(r, i) ==
  /\ r \in DOMAIN runs /\ i \in DOMAIN steps[r]
  /\ steps[r][i].status \in {"queued", "pending"}
  /\ runs[r].status \in {"queued", "running"}
  /\ \A j \in 1..(i - 1) : steps[r][j].status \in {"done", "skipped"}
  /\ \A j \in DOMAIN steps[r] : steps[r][j].status # "running"

AnyClaimable == \E r \in DOMAIN runs : \E i \in DOMAIN steps[r] : Claimable(r, i)

\* C28: claim_next_step returns a step exactly when some step is claimable,
\* and then the first one by run creation order and then step_index; when
\* none is claimable it returns nothing, changes no run or step row and
\* appends no event
C28_ClaimSelection ==
  [][(sched.pc = "claim" /\ sched' # sched)
       => IF AnyClaimable
          THEN /\ sched'.pc = "execute"
               /\ Claimable(sched'.run, sched'.pos)
               /\ \A r \in DOMAIN runs : \A i \in DOMAIN steps[r] :
                    Claimable(r, i)
                      => \/ sched'.run < r
                         \/ sched'.run = r /\ sched'.pos <= i
          ELSE /\ sched'.pc # "execute"
               /\ runs' = runs
               /\ steps' = steps
               /\ emitted' = <<>>]_vars

\* the claim returned a later step of the older run while the first step of
\* a younger run was claimable too
C28_Witness ==
  /\ sched.pc = "execute"
  /\ sched.run = 1
  /\ sched.pos > 1
  /\ Len(runs) = 2
  /\ runs[2].status = "queued"
  /\ steps[2] # <<>>
  /\ steps[2][1].status = "queued"

\* every step of run r is done in the step table S
AllDone(S, r) == \A j \in DOMAIN S[r] : S[r][j].status = "done"

\* C29: finalize_step_done sets the finalized step to done with the output
\* of the executor and appends one step.done event; exactly when every
\* step of the run is done afterwards the run becomes done and one run.done
\* event follows in the same commit, otherwise the run status is unchanged;
\* no other step and no other run changes
C29_FinalizeDone ==
  [][(sched.pc = "finalize" /\ sched.res = "ok" /\ sched' # sched)
       => LET r == sched.run
              i == sched.pos
          IN /\ steps'[r][i] = [status |-> "done", output |-> "out"]
             /\ \A q \in DOMAIN steps : \A j \in DOMAIN steps[q] :
                  <<q, j>> # <<r, i>> => steps'[q][j] = steps[q][j]
             /\ \A q \in DOMAIN runs : q # r => runs'[q] = runs[q]
             /\ IF AllDone(steps', r)
                THEN /\ runs'[r] = [runs[r] EXCEPT !.status = "done"]
                     /\ emitted' = <<Ev("step.done", r, i), Ev("run.done", r, 0)>>
                ELSE /\ runs'[r] = runs[r]
                     /\ emitted' = <<Ev("step.done", r, i)>>]_vars

\* the last step of a feature-dev run was finalized: the run is done and
\* the commit appended step.done and run.done
C29_Witness ==
  /\ Len(emitted) = 2
  /\ emitted[1].kind = "step.done"
  /\ emitted[2].kind = "run.done"
  /\ runs[emitted[2].run].wf = "feature-dev"
  /\ runs[emitted[2].run].status = "done"
  /\ AllDone(steps, emitted[2].run)

\* C30: when finalize_step_failed handles the failure of a step other than
\* test, or of the test step of a run that already has 2
\* run.requeued.test_failed events, the step becomes failed with the error
\* as output, the run becomes failed, no other step changes (none is
\* requeued), no requeue event is counted and the one event appended is
\* step.failed with requeued = false
C30_TerminalFailure ==
  [][(/\ sched.pc = "finalize" /\ sched.res = "err" /\ sched' # sched
      /\ \/ StepNames(runs[sched.run].wf)[sched.pos] # "test"
         \/ requeued[sched.run] >= 2)
       => LET r == sched.run
              i == sched.pos
          IN /\ steps'[r][i] = [status |-> "failed", output |-> "err"]
             /\ \A q \in DOMAIN steps : \A j \in DOMAIN steps[q] :
                  <<q, j>> # <<r, i>> => steps'[q][j] = steps[q][j]
             /\ runs' = [runs EXCEPT ![r].status = "failed"]
             /\ requeued' = requeued
             /\ Len(emitted') = 1
             /\ emitted'[1].kind = "step.failed"
             /\ emitted'[1].run = r /\ emitted'[1].step = i
             /\ emitted'[1].requeued = FALSE]_vars

\* the test step failed with the retry budget used up: the run is failed,
\* the steps before test are still done and the one event says not requeued
C30_Witness ==
  /\ Len(emitted) = 1
  /\ emitted[1].kind = "step.failed"
  /\ emitted[1].requeued = FALSE
  /\ StepNames(runs[emitted[1].run].wf)[emitted[1].step] = "test"
  /\ requeued[emitted[1].run] = 2
  /\ runs[emitted[1].run].status = "failed"
  /\ steps[emitted[1].run][emitted[1].step].status = "failed"
  /\ \A j \in 1..(emitted[1].step - 1) : steps[emitted[1].run][j].status = "done"

\* C31: the commit that inserts an auto-rebase run also inserts its single
\* queued step and appends its auto_rebase.queued event, so that no state
\* holds the run without the step or without the event
C31_EnqueueAtomic ==
  [][(Len(runs') > Len(runs) /\ runs'[Len(runs')].wf = "auto-rebase")
       => /\ steps'[Len(runs')] = <<QueuedStep>>
          /\ \E k \in DOMAIN emitted' :
               /\ emitted'[k].kind = "auto_rebase.queued"
               /\ emitted'[k].run = Len(runs')]_vars

\* C32: when a pass of the periodic reconciler over an enabled base whose
\* remote head is resolvable ends, with or without an enqueue,
\* auto_rebase_last_default_head is the remote head and
\* auto_rebase_last_reconcile_ms the time of the pass
C32_ReconcilerBookkeeping ==
  [][\A b \in Bases :
       (/\ sched.pc \in {"reconcile", "rec_write"} /\ sched'.pc = "claim"
        /\ payload[b].enabled
        /\ repo[b].remote_head # "")
       => /\ payload'[b].last_head = repo[b].remote_head
          /\ payload'[b].last_reconcile_ms
               = IF sched.pc = "reconcile" THEN now ELSE sched.now_ms]_vars

\* the step being taken is a Re-emit with the given scope
ReemitStep(scope) ==
  /\ Len(emitted') = 1
  /\ emitted'[1].kind = "workers.reemit"
  /\ emitted'[1].scope = scope

\* run r is scanned by a Re-emit with the given scope
ScannedBy(r, scope) ==
  /\ runs[r].status \in {"queued", "running", "failed"}
  /\ (scope = "global" \/ InScope(r, scope))

\* the steps of run r that the failed-tail reopening does not reach
BelowFailed(r) ==
  {i \in DOMAIN steps[r] :
     \A j \in DOMAIN steps[r] : steps[r][j].status = "failed" => i < j}

\* C33: in a scanned run without a running step every pending or waiting
\* step becomes queued; in a scanned run with a running step every running
\* step becomes queued and is counted in reset_running_steps, and pending
\* and waiting steps stay; done, queued and skipped steps keep their status;
\* outputs are kept (seen on the steps before the first failed one, which
\* step 3 does not rewrite)
C33_ReemitPromote ==
  [][\A scope \in {"global", "b1", "b2"} :
       ReemitStep(scope)
       => /\ \A r \in DOMAIN runs : ScannedBy(r, scope) =>
               \A i \in BelowFailed(r) :
                 LET anyRunning == \E j \in DOMAIN steps[r] : steps[r][j].status = "running"
                     promoted == IF anyRunning THEN {"running"} ELSE {"pending", "waiting"}
                 IN steps'[r][i] = IF steps[r][i].status \in promoted
                                   THEN [steps[r][i] EXCEPT !.status = "queued"]
                                   ELSE steps[r][i]
          /\ emitted'[1].reset =
               Cardinality({p \in (DOMAIN runs) \X (1..7) :
                              /\ ScannedBy(p[1], scope)
                              /\ p[2] \in DOMAIN steps[p[1]]
                              /\ steps[p[1]][p[2]].status = "running"})]_vars

\* a Re-emit reset one stale running step and left the pending step after
\* it pending
C33_Witness ==
  /\ Len(emitted) = 1
  /\ emitted[1].kind = "workers.reemit"
  /\ emitted[1].reset = 1
  /\ \E r \in DOMAIN runs :
       /\ runs[r].wf = "feature-dev"
       /\ runs[r].status = "queued"
       /\ steps[r][3] = QueuedStep
       /\ steps[r][4].status = "pending"
       /\ steps[r][5].status = "done"

\* the smallest index of a failed step of run r, 0 when none is failed
MinFailed(r) ==
  IF \E j \in DOMAIN steps[r] : steps[r][j].status = "failed"
  THEN Min({j \in DOMAIN steps[r] : steps[r][j].status = "failed"})
  ELSE 0

\* C34: for a scanned run with a failed step, the reopening makes every
\* step from the smallest failed index on queued with its output cleared
\* and changes no step of smaller index: such a step keeps its output and
\* the status it has after steps 1-2 (its own, or queued where steps 1-2
\* requeue a running, pending or waiting step)
C34_FailedTail ==
  [][\A scope \in {"global", "b1", "b2"} :
       ReemitStep(scope)
       => \A r \in DOMAIN runs : (ScannedBy(r, scope) /\ MinFailed(r) > 0) =>
            \A i \in DOMAIN steps[r] :
              LET anyRunning == \E j \in DOMAIN steps[r] : steps[r][j].status = "running"
                  promoted == IF anyRunning THEN {"running"} ELSE {"pending", "waiting"}
              IN IF i >= MinFailed(r)
                 THEN steps'[r][i] = [status |-> "queued", output |-> "null"]
                 ELSE /\ steps'[r][i].output = steps[r][i].output
                      /\ steps'[r][i].status =
                           IF steps[r][i].status \in promoted THEN "queued"
                           ELSE steps[r][i].status]_vars

\* a failed run whose fourth step had failed was re-emitted: the steps from
\* the fourth on are queued without output, a done step after it included,
\* and the done third step is as it was
C34_Witness ==
  /\ Len(emitted) = 1
  /\ emitted[1].kind = "workers.reemit"
  /\ emitted[1].reset = 0
  /\ \E r \in DOMAIN runs :
       /\ runs[r].wf = "feature-dev" /\ runs[r].status = "queued"
       /\ steps[r][3] = [status |-> "done", output |-> "out"]
       /\ \A i \in 4..7 : steps[r][i] = [status |-> "queued", output |-> "null"]

\* C35: a Re-emit, global or scoped, leaves every scanned run queued with
\* nothing else of the run row changed, and leaves every done run and each
\* of its steps exactly as they were
C35_DoneUntouched ==
  [][\A scope \in {"global", "b1", "b2"} :
       ReemitStep(scope)
       => \A r \in DOMAIN runs :
            /\ ScannedBy(r, scope) => runs'[r] = [runs[r] EXCEPT !.status = "queued"]
            /\ runs[r].status = "done" => runs'[r] = runs[r] /\ steps'[r] = steps[r]]_vars

\* a global Re-emit found a done run holding a failed and a running step:
\* it scanned nothing and the run and its steps are as before
C35_Witness ==
  /\ Len(emitted) = 1
  /\ emitted[1].kind = "workers.reemit"
  /\ emitted[1].scope = "global"
  /\ emitted[1].scanned = 0
  /\ \E r \in DOMAIN runs :
       /\ runs[r].wf = "feature-dev"
       /\ runs[r].status = "done"
       /\ steps[r][3].status = "failed"
       /\ steps[r][4].status = "running"

\* C36: the runloop enters the reconciler only at the end of an idle
\* iteration whose idle count is a multiple of 20, and the watchdog only in
\* an idle iteration whose idle count is a multiple of 30 (the count is kept
\* modulo 60 and an idle iteration has just incremented it, so it is
\* positive); an iteration that finalized a step enters neither
C36_Cadence ==
  [][/\ (sched'.pc = "reconcile" /\ sched.pc # "reconcile")
        => /\ sched.pc \in {"claim", "watchdog"}
           /\ sched'.idle % 20 = 0
     /\ (sched'.pc = "watchdog" /\ sched.pc # "watchdog")
        => /\ sched.pc = "claim"
           /\ sched'.idle % 30 = 0
     /\ sched.pc = "finalize" => sched'.pc \notin {"reconcile", "watchdog"}]_vars

\* C37: when the enqueue of a reconciler pass returned queued, the
\* bookkeeping write that ends the pass leaves auto_rebase_last_enqueued_ms
\* at the time of that enqueue, the call_ms of the run it inserted
C37_DebounceSurvives ==
  [][(/\ sched.pc = "rec_write" /\ sched'.pc = "claim"
      /\ calls["rec"].ret = "queued")
       => /\ payload'[sched.base].last_enqueued_ms = payload[sched.base].last_enqueued_ms
          /\ \E r \in DOMAIN runs :
               /\ runs[r].wf = "auto-rebase" /\ runs[r].entity = sched.base
               /\ payload'[sched.base].last_enqueued_ms = runs[r].call_ms]_vars

\* C38: whenever a reconciler pass has seen the remote head of an enabled
\* base differ from auto_rebase_last_default_head and has attempted the
\* enqueue, a sweep of that base is executed at some later point
C38_NotForgotten ==
  \A b \in Bases :
    (sched.pc = "rec_wait" /\ sched.base = b)
      ~> (/\ sched.pc = "execute"
          /\ runs[sched.run].wf = "auto-rebase"
          /\ runs[sched.run].entity = b)

\* the last commit was a Re-emit with the given scope
ReemitJustRan(scope) ==
  /\ Len(emitted) = 1
  /\ emitted[1].kind = "workers.reemit"
  /\ emitted[1].scope = scope

C40_BaseScopeCoversSweeps ==
  [][\A b \in {"b1", "b2"} :
       ReemitStep(b)
       => \A r \in DOMAIN runs' :
            (runs'[r].wf = "auto-rebase" /\ runs'[r].entity = b /\ runs'[r].status # "done")
            => \A i \in DOMAIN steps'[r] : steps'[r][i].status \notin {"failed", "running"}]_vars

====
